---- MODULE Spec2Model ----
(***************************************************************************)
(* A model of the message retrieval (MessageRetriever) and of the          *)
(* participation equity metric (ParticipationEquityIndex) of the Slack     *)
(* plugin.  The Slack Web API is the environment: every call of the        *)
(* retriever is one step whose response is chosen nondeterministically.    *)
(***************************************************************************)
EXTENDS Integers, Sequences, FiniteSets, TLC

\* ------------------------------------------------------------------ bounds
\* longest channel_id_list handed to get_channel_messages
MaxChannels == 2
\* most messages on one page of conversations_history / conversations_replies
MaxPageLen == 2
\* most rows one get_channel_messages call assembles
MaxRows == 3
\* the request counters stop counting here (MaxReq means MaxReq or more)
MaxReq == 2

\* ------------------------------------------------------- python values
\* Python's None (also: a key that is absent from a dict)
NoneV == "<None>"
\* the values of the tri-state column is_parent
PyTrue == "True"
PyFalse == "False"
\* the argument channel_id_list = None, among the lists that can be passed
Omitted == <<NoneV>>
\* a falsy next_cursor (absent, None or "")
NoCursor == ""
\* str(x) of message_retriever.py:87 and :336
Str(x) == IF x = NoneV THEN "None" ELSE x
\* bool(x) of a string or None
Truthy(x) == x # NoneV /\ x # ""

\* ------------------------------------------------ the Slack workspace
ChannelIds == {"C1", "C2"}
\* channel["name"] as conversations_info reports it
NameOf(c) == IF c = "C1" THEN "general" ELSE "random"

\* Messages as the API returns them.  ts is unique within a channel and
\* only a thread root carries reply_count > 0; two channels may hold
\* messages with the same ts.
msgParent ==
    [ts |-> "1", text |-> "a", type |-> "message", subtype |-> NoneV,
     user |-> "U1", thread_ts |-> "1", reply_count |-> 1]
msgBroadcast ==
    [ts |-> "2", text |-> "b", type |-> "message", subtype |-> "thread_broadcast",
     user |-> "U2", thread_ts |-> "1", reply_count |-> 0]
msgPlain ==
    [ts |-> "1", text |-> "a", type |-> "message", subtype |-> NoneV,
     user |-> "U1", thread_ts |-> NoneV, reply_count |-> 0]
msgJoin ==
    [ts |-> "3", text |-> "j", type |-> "message", subtype |-> "channel_join",
     user |-> "U2", thread_ts |-> NoneV, reply_count |-> 0]

\* a message whose ts is not a decimal number
msgBadTs ==
    [ts |-> "x", text |-> "c", type |-> "message", subtype |-> NoneV,
     user |-> "U2", thread_ts |-> NoneV, reply_count |-> 0]

\* the messages of a channel
ChannelMessages(c) ==
    IF c = "C1" THEN {msgParent, msgBroadcast} ELSE {msgPlain, msgJoin, msgBadTs}
\* the messages of a thread of a channel (the root and its replies)
ThreadMessages(c, thread_ts) ==
    {m \in ChannelMessages(c) : m.thread_ts = thread_ts}

\* sequences of at most n elements of S
SeqUpTo(S, n) == UNION {[1..k -> S] : k \in 0..n}

\* the values of next_cursor: none, or a cursor
Cursors == {NoCursor, "cur"}

\* float(ts_str) of astype(float) (message_retriever.py:131): <<the number>>,
\* or <<>> when the conversion raises ValueError
ToFloat(ts_str) ==
    IF ts_str = "1" THEN <<1>>
    ELSE IF ts_str = "2" THEN <<2>>
    ELSE IF ts_str = "3" THEN <<3>>
    ELSE <<>>

\* what reactions_get can report for a message
NoReactions == {}
ReactionMaps == {NoReactions, {<<"thumbsup", 1>>}}

\* ------------------------------------------------------------- state
VARIABLES
    pc,               \* where get_channel_messages stands
    channel_id_list,  \* its argument
    ci,               \* index of the channel being processed
    channel_info,     \* name of that channel (NoneV: not retrieved)
    all_messages,     \* rows assembled so far
    hist,             \* locals of the running _get_channel_history call
    messages,         \* what _get_channel_history returned
    mi,               \* index of the message being processed
    thr,              \* locals of the running _get_thread_replies call
    df,               \* the table after drop_duplicates
    ri,               \* index of the row whose reactions are fetched
    result            \* the returned table

retrVars ==
    <<pc, channel_id_list, ci, channel_info, all_messages, hist, messages, mi,
      thr, df, ri, result>>

VARIABLES
    arg,              \* channel_id_list as the caller gave it (Omitted: None)
    registry_reads,   \* calls of channel_tracker.get_installed_channels
    slack_calls,      \* Slack Web API requests issued by the call, up to MaxReq
    info_failed,      \* <<position, kind>> of the channels whose info lookup failed
    hist_calls,       \* positions of the channels whose history was requested
    fatal,            \* the step whose exception reached the outer except
    processed,        \* the history message the last step turned into a row
    react_failed,     \* indices of the rows whose reactions lookup failed
    react_answer,     \* <<row index, reactions>> when the last step was an
                      \* answered reactions lookup, else <<>>
    rate_limited,     \* the last step was a Slack request that was answered
                      \* with a rate-limit response
    react_keys,       \* <<channel, timestamp>> of the reactions_get calls made
    first_rows        \* the number of rows assembled when the channel loop
                      \* left the first channel of the list

callVars ==
    <<arg, registry_reads, slack_calls, info_failed, hist_calls, fatal, processed,
      react_failed, react_answer, rate_limited, react_keys, first_rows>>

VARIABLES
    pei_pc,      \* where ParticipationEquityIndex.compute stands
    pei_df,      \* its argument: the number of rows per (channel_name, user_id, subtype)
    pei_values,  \* the mapping it returned
    pei_order,   \* df['channel_name'].unique() of the call: the order of its loop
    pei_fault    \* the channels whose loop body raised something else than KeyError

peiVars == <<pei_pc, pei_df, pei_values, pei_order, pei_fault>>

VARIABLES
    rep_pc,      \* where handle_channel_select_submission stands
    report,      \* what generate_slack_report returned
    outcome,     \* what generate_slack_report ran into: "empty", "error" or "report"
    posted,      \* what the handler posted to the user after the report was made
    ack,         \* how the acknowledgment post ended, until the report is started
    attempts,    \* the posts the handler attempted, in order
    delivered    \* the final messages (report or notification) that were posted

repVars == <<rep_pc, report, outcome, posted, ack, attempts, delivered>>

VARIABLES
    cmd_pc,      \* where the /pulse-report command and its modal stand
    cmd_text,    \* body["text"] of the command, a string as its characters
    cmd_reply,   \* the correction message the command handler posted, if any
    modal,       \* private_metadata of the modal that was opened ("": none)
    days_arg     \* <<days>> once a days value reached get_channel_messages

cmdVars == <<cmd_pc, cmd_text, cmd_reply, modal, days_arg>>

VARIABLES
    trk_pc,        \* where update_installed_channels stands
    trk_all,       \* all_channels of the running _fetch_public_channels
    trk_cursor,    \* its cursor
    trk_listed,    \* the pages conversations_list answered in this listing
    trk_end,       \* how the last listing ended: "ok", "error" or "raise"
    env,           \* os.environ["INSTALLED_CHANNELS"], ids and commas
    last_members,  \* installed_channels of the last update that stored
    expected_list  \* last_members when get_installed_channels was last read

trkVars ==
    <<trk_pc, trk_all, trk_cursor, trk_listed, trk_end, env, last_members,
      expected_list>>

VARIABLES
    user_quiz_data,  \* self.user_quiz_data of one user: <<>> or <<the quiz state>>
    quiz_handler,    \* the quiz handler that ran last
    quiz_pc,         \* how it ended
    start_button,    \* a message with the Start Quiz button is in the user's DM
    answer_buttons,  \* the question indices whose answer buttons are in the DM
    results_shown,   \* how often the quiz results were posted
    assessments,     \* the assessment results sent so far
    slack_failed     \* some Slack call of a quiz handler has failed

quizVars ==
    <<user_quiz_data, quiz_handler, quiz_pc, start_button, answer_buttons,
      results_shown, assessments, slack_failed>>

auxVars == <<cmdVars, trkVars, quizVars>>

vars == <<retrVars, callVars, peiVars, repVars, auxVars>>

\* locals of _get_channel_history at its start (message_retriever.py:209-211).
\* reqs, page, only_more_no_cursor, req_latest and req_cursor record the
\* requests issued and the answers received so far; returned is set with the
\* final values when the call returns, failed when it returns because a
\* request failed, and the locals are gone on the caller's next step
HistStart ==
    [all_messages |-> <<>>, cursor |-> NoneV, latest |-> NoneV,
     reqs |-> 0, page |-> <<>>, only_more_no_cursor |-> TRUE,
     req_latest |-> FALSE, req_cursor |-> FALSE, returned |-> FALSE,
     failed |-> FALSE]
\* locals of _get_thread_replies at its start (message_retriever.py:292-294)
ThreadStart(thread_ts) ==
    [thread_ts |-> thread_ts, thread_messages |-> <<>>, cursor |-> NoneV,
     latest |-> NoneV, reqs |-> 0, page |-> <<>>, only_more_no_cursor |-> TRUE,
     req_latest |-> FALSE, req_cursor |-> FALSE, returned |-> FALSE,
     failed |-> FALSE]

\* one more request, counted up to MaxReq
CountReq(n) == IF n < MaxReq THEN n + 1 ELSE MaxReq

\* ---------------------------------------------------------- rows
\* the row of a channel-history message as it would be if thread_id were
\* taken from thread_ts alone
HistoryRowThreadTsOnly(channel_id, channel_name, message) ==
    LET thread_ts == message.thread_ts
    IN  [channel_id |-> channel_id,
         channel_name |-> channel_name,
         ts_str |-> message.ts,
         message |-> message.text,
         type |-> message.type,
         subtype |-> IF message.subtype = NoneV THEN "message" ELSE message.subtype,
         is_thread |-> Truthy(thread_ts),
         is_parent |-> IF Truthy(thread_ts)
                       THEN (IF message.ts = thread_ts THEN PyTrue ELSE PyFalse)
                       ELSE NoneV,
         user_id |-> message.user,
         thread_id |-> Str(thread_ts),
         reactions |-> NoReactions]

\* the row of a channel-history message (message_retriever.py:76-104)
HistoryRow(channel_id, channel_name, message) ==
    LET thread_ts == message.thread_ts
        is_thread == Truthy(thread_ts)
        is_parent == IF Truthy(thread_ts)
                     THEN (IF message.ts = thread_ts THEN PyTrue ELSE PyFalse)
                     ELSE NoneV
        thread_id == Str(IF is_thread THEN thread_ts ELSE message.ts)
    IN  [channel_id |-> channel_id,
         channel_name |-> channel_name,
         ts_str |-> message.ts,
         message |-> message.text,
         type |-> message.type,
         subtype |-> IF message.subtype = NoneV THEN "message" ELSE message.subtype,
         is_thread |-> is_thread,
         is_parent |-> is_parent,
         user_id |-> message.user,
         thread_id |-> thread_id,
         reactions |-> NoReactions]

\* a thread reply's row as it would be if is_parent compared the reply's
\* thread_ts with the thread fetched
ReplyRowParentByThread(channel_id, channel_name, thread_ts, reply) ==
    [channel_id |-> channel_id,
     channel_name |-> channel_name,
     ts_str |-> reply.ts,
     message |-> reply.text,
     type |-> reply.type,
     subtype |-> IF reply.subtype = NoneV THEN "message" ELSE reply.subtype,
     is_thread |-> TRUE,
     is_parent |-> IF reply.thread_ts = thread_ts THEN PyTrue ELSE PyFalse,
     user_id |-> reply.user,
     thread_id |-> Str(thread_ts),
     reactions |-> NoReactions]

\* the row of a thread reply (message_retriever.py:326-338)
ReplyRow(channel_id, channel_name, thread_ts, reply) ==
    [channel_id |-> channel_id,
     channel_name |-> channel_name,
     ts_str |-> reply.ts,
     message |-> reply.text,
     type |-> reply.type,
     subtype |-> IF reply.subtype = NoneV THEN "message" ELSE reply.subtype,
     is_thread |-> TRUE,
     is_parent |-> IF reply.ts = reply.thread_ts THEN PyTrue ELSE PyFalse,
     user_id |-> reply.user,
     thread_id |-> Str(thread_ts),
     reactions |-> NoReactions]

\* messages[1:] turned into rows (message_retriever.py:324-338)
ReplyRows(channel_id, channel_name, thread_ts, page) ==
    IF Len(page) > 1
    THEN [i \in 1..(Len(page) - 1) |->
            ReplyRow(channel_id, channel_name, thread_ts, page[i + 1])]
    ELSE <<>>

\* the subset of drop_duplicates (message_retriever.py:136)
RowKey(r) == <<r.channel_id, r.ts_str, r.user_id, r.message>>

RECURSIVE KeepFirst(_, _)
KeepFirst(rows, seen) ==
    IF rows = <<>> THEN <<>>
    ELSE IF RowKey(Head(rows)) \in seen
         THEN KeepFirst(Tail(rows), seen)
         ELSE <<Head(rows)>> \o KeepFirst(Tail(rows), seen \cup {RowKey(Head(rows))})

\* sequence reversal
RECURSIVE Reverse(_)
Reverse(q) == IF q = <<>> THEN <<>> ELSE Append(Reverse(Tail(q)), Head(q))

\* drop_duplicates as it would be with keep="last"
DropDuplicatesKeepLast(rows) == Reverse(KeepFirst(Reverse(rows), {}))

\* a deduplication that removes a row only when the row before it carries
\* its key
DropDuplicatesAdjacent(rows) ==
    [i \in 1..Cardinality({j \in 1..Len(rows) :
                              j = 1 \/ RowKey(rows[j - 1]) # RowKey(rows[j])}) |->
        rows[CHOOSE j \in 1..Len(rows) :
                /\ (j = 1 \/ RowKey(rows[j - 1]) # RowKey(rows[j]))
                /\ Cardinality({k \in 1..j :
                        k = 1 \/ RowKey(rows[k - 1]) # RowKey(rows[k])}) = i]]

\* a deduplication that removes nothing
DropDuplicatesNothing(rows) == rows

\* the rows of a table at the indices of keep, from index i on, in order
RECURSIVE RowsAt(_, _, _)
RowsAt(rows, keep, i) ==
    IF i > Len(rows) THEN <<>>
    ELSE (IF i \in keep THEN <<rows[i]>> ELSE <<>>) \o RowsAt(rows, keep, i + 1)

\* a pass that drops every second row of a key: a row goes when an odd number
\* of rows before it carry its key
DropDuplicatesEverySecond(rows) ==
    RowsAt(rows,
           {i \in 1..Len(rows) :
               Cardinality({j \in 1..(i - 1) : RowKey(rows[j]) = RowKey(rows[i])}) % 2 = 0},
           1)

\* df.drop_duplicates(subset=..., keep="first") (message_retriever.py:135-138)
DropDuplicates(rows) == KeepFirst(rows, {})

\* ------------------------------------- ParticipationEquityIndex.compute
\* MIN_MESSAGES_FOR_PEI (pei.py:10)
MIN_MESSAGES_FOR_PEI == 10

\* most 'message' rows of one user in the channel "general"
MaxCount == 9
\* most rows of a user with subtype thread_broadcast, or with channel_join
MaxOther == 1

\* the channel names, users and subtypes of the tables compute is given
PeiChannels == {"general", "random"}
PeiUsers == {"U1", "U2", "U3"}
Subtypes == {"message", "thread_broadcast", "channel_join"}
Cells == PeiChannels \X PeiUsers \X Subtypes

\* the table without rows
EmptyTable == [cell \in Cells |-> 0]
\* the mapping without keys
EmptyMap == [c \in {} |-> <<0, 1>>]

\* a table: 'message' rows per user in "general" (g) and in "random" (r),
\* thread_broadcast rows of U1 in "general" (tb), channel_join rows of U3 in
\* "general" (jg) and of U1 in "random" (jr)
MkTable(g, r, tb, jg, jr) ==
    [cell \in Cells |->
        LET c == cell[1]
            u == cell[2]
            s == cell[3]
        IN  IF s = "message"
            THEN (IF c = "general" THEN g[u] ELSE r[u])
            ELSE IF s = "thread_broadcast"
            THEN (IF c = "general" /\ u = "U1" THEN tb ELSE 0)
            ELSE IF c = "general" /\ u = "U3" THEN jg
            ELSE IF c = "random" /\ u = "U1" THEN jr
            ELSE 0]

\* the tables compute is tried on: every count up to MaxCount for the users of
\* "general"; in "random" U1 and U2 post nothing or half the threshold each
InputTables ==
    {MkTable(g, r, tb, jg, jr) :
        g \in [PeiUsers -> 0..MaxCount],
        r \in {f \in [PeiUsers -> {0, MIN_MESSAGES_FOR_PEI \div 2}] : f["U3"] = 0},
        tb \in 0..MaxOther, jg \in 0..MaxOther, jr \in 0..MaxOther}

\* a filter that lets every subtype through
IsCountedAnySubtype(subtype) == TRUE

\* df['subtype'].isin(['message', 'thread_broadcast']) (pei.py:48)
IsCounted(subtype) == subtype \in {"message", "thread_broadcast"}

\* groupby(['channel_name', 'user_id']).size() of the filtered rows: the
\* rows of one user in one channel (pei.py:51)
UserCount(table, c, u) ==
    LET n(s) == IF IsCounted(s) THEN table[<<c, u, s>>] ELSE 0
    IN  n("message") + n("thread_broadcast") + n("channel_join")

\* df['channel_name'].unique() (pei.py:57)
DfChannels(table) ==
    {c \in PeiChannels : \E u \in PeiUsers, s \in Subtypes : table[<<c, u, s>>] > 0}

\* the users of a channel as they would be if a user without counted rows
\* had a group of size 0
ChannelUsersWithEmptyGroups(table, c) ==
    IF \E u \in PeiUsers : UserCount(table, c, u) > 0 THEN PeiUsers ELSE {}

\* the index of user_counts[channel_name]: the users with a group in the
\* channel; empty when the lookup raises KeyError (pei.py:60, 106-108)
ChannelUsers(table, c) == {u \in PeiUsers : UserCount(table, c, u) > 0}

\* sorted(channel_counts) (pei.py:71)
RECURSIVE SortedCountsOf(_, _, _)
SortedCountsOf(table, c, users) ==
    IF users = {} THEN <<>>
    ELSE LET u == CHOOSE v \in users :
                    \A w \in users : UserCount(table, c, v) <= UserCount(table, c, w)
         IN  <<UserCount(table, c, u)>> \o SortedCountsOf(table, c, users \ {u})

SortedCounts(table, c) == SortedCountsOf(table, c, ChannelUsers(table, c))

\* sum(sorted_counts) (pei.py:73)
RECURSIVE SumSeq(_)
SumSeq(q) == IF q = <<>> THEN 0 ELSE Head(q) + SumSeq(Tail(q))

\* the weight of a rank counted from 0
WeightZeroBased(i, n) == 2 * (i - 1) - n - 1

\* the weight without its - 1
WeightNoMinusOne(i, n) == 2 * i - n

\* the weight of rank i among n, i from 1 (pei.py:92-93)
Weight(i, n) == 2 * i - n - 1

\* weighted_sum (pei.py:91-94)
RECURSIVE WeightedSumFrom(_, _)
WeightedSumFrom(q, i) ==
    IF i > Len(q) THEN 0
    ELSE Weight(i, Len(q)) * q[i] + WeightedSumFrom(q, i + 1)

WeightedSum(q) == WeightedSumFrom(q, 1)

\* abs (pei.py:95)
Abs(x) == IF x < 0 THEN -x ELSE x

\* a denominator that leaves out the number of users
GiniDenominatorTotal(n, total_sum) == total_sum

\* n * total_sum (pei.py:95)
GiniDenominator(n, total_sum) == n * total_sum

\* gini = abs(weighted_sum / (n * total_sum)) as the fraction
\* <<numerator, denominator>> (pei.py:95)
Gini(q) == <<Abs(WeightedSum(q)), GiniDenominator(Len(q), SumSeq(q))>>

\* pei = 1 - gini, as a fraction over the same denominator (pei.py:98)
PeiOf(q) == <<Gini(q)[2] - Gini(q)[1], Gini(q)[2]>>

\* a user check that lets a single user through
TooFewUsersBelowOne(n) == n < 1

\* len(channel_counts) < 2 (pei.py:62)
TooFewUsers(n) == n < 2

\* a threshold check that also skips a total of exactly the threshold
TooFewMessagesInclusive(total_sum) == total_sum <= MIN_MESSAGES_FOR_PEI

\* total_sum < MIN_MESSAGES_FOR_PEI (pei.py:76)
TooFewMessages(total_sum) == total_sum < MIN_MESSAGES_FOR_PEI

\* the channels of the loop that reach pei_values[channel_name] = pei
\* (pei.py:57-108)
Computed(table, c) ==
    /\ ChannelUsers(table, c) # {}
    /\ ~TooFewUsers(Cardinality(ChannelUsers(table, c)))
    /\ ~TooFewMessages(SumSeq(SortedCounts(table, c)))
    /\ SumSeq(SortedCounts(table, c)) # 0

\* compute(df) (pei.py:46-114)
ComputePEI(table) ==
    [c \in {d \in DfChannels(table) : Computed(table, d)} |->
        PeiOf(SortedCounts(table, c))]

\* the except clause that catches an exception raised in the body of the
\* channel loop: KeyError inside the loop, anything else around the whole
\* method (pei.py:106, 112)
PeiHandler(exc) == IF exc = "KeyError" THEN "loop" ELSE "compute"

\* what the loop body does for channel c: it raises KeyError for a channel
\* without counted rows or another exception for a channel of fault, it
\* continues, or it stores a value (pei.py:58-108)
BodyOutcome(table, c, fault) ==
    IF c \in fault THEN "Exception"
    ELSE IF ChannelUsers(table, c) = {} THEN "KeyError"
    ELSE IF Computed(table, c) THEN "value"
    ELSE "continue"

\* the loop of compute from channel order[i] on, with the values stored so
\* far: the mapping returned, and whether an exception leaves compute
\* instead (pei.py:57-114)
RECURSIVE ComputeFrom(_, _, _, _, _)
ComputeFrom(table, order, i, values, fault) ==
    IF i > Len(order) THEN [values |-> values, propagated |-> FALSE]
    ELSE LET c == order[i]
             o == BodyOutcome(table, c, fault)
         IN  IF o = "value"
             THEN ComputeFrom(table, order, i + 1,
                              [d \in DOMAIN values \cup {c} |->
                                   IF d = c THEN PeiOf(SortedCounts(table, c))
                                   ELSE values[d]],
                              fault)
             ELSE IF o = "continue"
             THEN ComputeFrom(table, order, i + 1, values, fault)
             ELSE IF PeiHandler(o) = "loop"
             THEN ComputeFrom(table, order, i + 1, values, fault)
             ELSE IF PeiHandler(o) = "compute"
             THEN [values |-> EmptyMap, propagated |-> FALSE]
             ELSE [values |-> EmptyMap, propagated |-> TRUE]

\* the orders in which a set of channels can first appear in a table
Orders(S) ==
    {q \in [1..Cardinality(S) -> S] : \A i, j \in 1..Cardinality(S) : i # j => q[i] # q[j]}

\* compute(df) with exceptions in the loop bodies of the channels of fault
ComputeWith(order, fault) ==
    LET v == ComputeFrom(pei_df', order, 1, EmptyMap, fault)
    IN  /\ pei_order' = order
        /\ pei_fault' = fault
        /\ pei_pc' = IF v.propagated THEN "raised" ELSE "done"
        /\ pei_values' = v.values

\* the tables compute is tried on when a loop body raises: every user of
\* either channel posts nothing or half the threshold
FaultTables ==
    {MkTable(g, r, 0, 0, 0) :
        g \in [PeiUsers -> {0, MIN_MESSAGES_FOR_PEI \div 2}],
        r \in [PeiUsers -> {0, MIN_MESSAGES_FOR_PEI \div 2}]}

\* compute is called on pei_df; the loop bodies of some channels raise
ComputeRaising ==
    /\ pei_pc = "input"
    /\ pei_df' = pei_df
    /\ \E order \in Orders(DfChannels(pei_df)), fault \in SUBSET PeiChannels :
          ComputeWith(order, fault)
    /\ UNCHANGED <<retrVars, callVars, repVars, auxVars>>

\* compute is called on pei_df and returns
Compute ==
    /\ pei_pc = "input"
    /\ pei_values' = ComputePEI(pei_df)
    /\ pei_pc' = "done"
    /\ UNCHANGED <<pei_df, pei_order, pei_fault>>
    /\ UNCHANGED <<retrVars, callVars, repVars, auxVars>>

\* ------------------------------------------------------------- Init
\* the channel lists a caller can pass
ChannelLists == SeqUpTo(ChannelIds, MaxChannels)

\* what get_installed_channels can return: the ids of the channels the bot
\* is a member of, each once (channel_utils.py:34-40, 102-103)
InstalledLists ==
    {l \in ChannelLists : \A i, j \in 1..Len(l) : i # j => l[i] # l[j]}

RetrInit ==
    /\ pc = "idle"
    /\ channel_id_list = <<>>
    /\ ci = 0
    /\ channel_info = NoneV
    /\ all_messages = <<>>
    /\ hist = HistStart
    /\ messages = <<>>
    /\ mi = 0
    /\ thr = ThreadStart(NoneV)
    /\ df = <<>>
    /\ ri = 0
    /\ result = <<>>
    /\ arg = <<>>
    /\ registry_reads = 0
    /\ slack_calls = 0
    /\ info_failed = {}
    /\ hist_calls = {}
    /\ fatal = NoneV
    /\ processed = <<>>
    /\ react_failed = {}
    /\ react_answer = <<>>
    /\ rate_limited = FALSE
    /\ react_keys = <<>>
    /\ first_rows = 0

\* no compute call
PeiIdle ==
    /\ pei_pc = "idle"
    /\ pei_df = EmptyTable
    /\ pei_values = EmptyMap
    /\ pei_order = <<>>
    /\ pei_fault = {}

\* no submission handled
RepIdle ==
    /\ rep_pc = "idle"
    /\ report = NoneV
    /\ outcome = NoneV
    /\ posted = NoneV
    /\ ack = NoneV
    /\ attempts = <<>>
    /\ delivered = <<>>

\* no /pulse-report command received
CmdIdle ==
    /\ cmd_pc = "idle"
    /\ cmd_text = <<>>
    /\ cmd_reply = NoneV
    /\ modal = <<>>
    /\ days_arg = <<>>

\* no update of the installed channels yet: the variable is not set
\* (channel_utils.py:102)
TrkIdle ==
    /\ trk_pc = "idle"
    /\ trk_all = <<>>
    /\ trk_cursor = NoneV
    /\ trk_listed = <<>>
    /\ trk_end = NoneV
    /\ env = <<>>
    /\ last_members = <<>>
    /\ expected_list = <<>>

\* SkillAssessmentHandler.__init__ (skill_assessment.py:14)
QuizIdle ==
    /\ user_quiz_data = <<>>
    /\ quiz_handler = NoneV
    /\ quiz_pc = "idle"
    /\ start_button = FALSE
    /\ answer_buttons = {}
    /\ results_shown = 0
    /\ assessments = 0
    /\ slack_failed = FALSE

AuxIdle == CmdIdle /\ TrkIdle /\ QuizIdle

Init == RetrInit /\ PeiIdle /\ RepIdle /\ AuxIdle

\* ------------------------------------------- get_channel_messages
\* the channel being processed
Channel == channel_id_list[ci]

\* no _get_channel_history call is running: its locals are gone
NoHist == hist' = HistStart
\* no _get_thread_replies call is running: its locals are gone
NoThread == thr' = ThreadStart(NoneV)

\* the for loop over channel_id_list moves on (message_retriever.py:64)
AfterChannel ==
    /\ pc' = IF ci < Len(channel_id_list) THEN "info" ELSE "assemble"
    /\ ci' = IF ci < Len(channel_id_list) THEN ci + 1 ELSE ci
    /\ channel_info' = NoneV
    /\ messages' = <<>>
    /\ mi' = 0

\* the rows of the first channel are complete when the loop moves to the
\* second (message_retriever.py:64)
LeavesFirstChannel ==
    first_rows' = IF ci = 1 /\ ci' = 2 THEN Len(all_messages') ELSE first_rows

\* the for loop over messages moves on (message_retriever.py:75)
AfterMessage ==
    IF mi < Len(messages)
    THEN pc' = "process" /\ mi' = mi + 1 /\ UNCHANGED <<ci, channel_info, messages>>
    ELSE AfterChannel

\* the except clauses as they would be without the one around the whole
\* of get_channel_messages
HandlerInnerOnly(site) ==
    IF site = "conversations_info" THEN "_get_channel_info"
    ELSE IF site = "conversations_history" THEN "_get_channel_history"
    ELSE IF site = "conversations_replies" THEN "_get_thread_replies"
    ELSE IF site = "reactions_get" THEN "_get_message_reactions"
    ELSE NoneV

\* the except clause that catches an exception raised by a step of
\* get_channel_messages, by the function it belongs to
\* (message_retriever.py:187, 270, 358, 400, 155)
Handler(site) ==
    IF site = "conversations_info" THEN "_get_channel_info"
    ELSE IF site = "conversations_history" THEN "_get_channel_history"
    ELSE IF site = "conversations_replies" THEN "_get_thread_replies"
    ELSE IF site = "reactions_get" THEN "_get_message_reactions"
    ELSE "get_channel_messages"

\* an exception no except clause catches leaves get_channel_messages
Escapes ==
    /\ pc' = "raised"
    /\ NoHist /\ NoThread
    /\ UNCHANGED <<channel_id_list, ci, channel_info, all_messages, messages, mi,
                   df, ri, result>>

\* another Slack request, no row built by this step
Requested ==
    /\ slack_calls' = CountReq(slack_calls)
    /\ processed' = <<>>
    /\ react_answer' = <<>>

\* the channel loop starts, or the call returns at once for an empty list
\* (message_retriever.py:58-64)
Start(list) ==
    /\ channel_id_list' = list
    /\ IF list = <<>>
       THEN pc' = "done" /\ ci' = ci
       ELSE pc' = "info" /\ ci' = 1
    /\ result' = <<>>
    /\ NoHist /\ NoThread
    /\ UNCHANGED <<channel_info, all_messages, messages, mi, df, ri>>
    /\ UNCHANGED <<slack_calls, info_failed, hist_calls, fatal, processed,
                   react_failed, react_answer, react_keys>>
    /\ rate_limited' = FALSE
    /\ first_rows' = 0

\* a call with a list that reads the installed channels all the same
CallReadsRegistry(list) ==
    /\ pc = "idle"
    /\ rep_pc = "generate"
    /\ arg' = list
    /\ registry_reads' = registry_reads + 1
    /\ Start(list)
    /\ ack' = NoneV
    /\ UNCHANGED <<rep_pc, report, outcome, posted, attempts, delivered>>
    /\ UNCHANGED <<peiVars, auxVars>>

\* get_channel_messages(days, channel_id_list) is called with a list by
\* generate_slack_report (message_retriever.py:53-62, report_metrics.py:190)
Call(list) ==
    /\ pc = "idle"
    /\ rep_pc = "generate"
    /\ arg' = list
    /\ registry_reads' = registry_reads
    /\ Start(list)
    /\ ack' = NoneV
    /\ UNCHANGED <<rep_pc, report, outcome, posted, attempts, delivered>>
    /\ UNCHANGED <<peiVars, auxVars>>

\* get_channel_messages(days) is called without a list: the installed
\* channels are used (message_retriever.py:55-56)
CallOmitted ==
    /\ pc = "idle"
    /\ rep_pc = "generate"
    /\ arg' = Omitted
    /\ registry_reads' = registry_reads + 1
    /\ \E installed \in InstalledLists : Start(installed)
    /\ ack' = NoneV
    /\ UNCHANGED <<rep_pc, report, outcome, posted, attempts, delivered>>
    /\ UNCHANGED <<peiVars, auxVars>>

\* get_channel_messages(days) is called without a list and
\* get_installed_channels raises (message_retriever.py:56, 155-157)
CallRegistryRaises ==
    /\ pc = "idle"
    /\ rep_pc = "generate"
    /\ arg' = Omitted
    /\ registry_reads' = registry_reads + 1
    /\ fatal' = "get_installed_channels"
    /\ IF Handler("get_installed_channels") = NoneV
       THEN Escapes
       ELSE /\ pc' = "done"
            /\ result' = <<>>
            /\ NoHist /\ NoThread
            /\ UNCHANGED <<channel_id_list, ci, channel_info, all_messages,
                           messages, mi, df, ri>>
    /\ UNCHANGED <<slack_calls, info_failed, hist_calls, processed, react_failed,
                   react_answer, react_keys>>
    /\ rate_limited' = FALSE
    /\ first_rows' = 0
    /\ ack' = NoneV
    /\ UNCHANGED <<rep_pc, report, outcome, posted, attempts, delivered>>
    /\ UNCHANGED <<peiVars, auxVars>>

\* conversations_info answers ok (message_retriever.py:171-185, 67-72)
InfoOk ==
    /\ pc = "info"
    /\ channel_info' = NameOf(Channel)
    /\ pc' = "history"
    /\ NoHist /\ NoThread
    /\ Requested
    /\ UNCHANGED <<channel_id_list, ci, all_messages, messages, mi, df, ri, result>>
    /\ UNCHANGED <<arg, registry_reads, info_failed, hist_calls, fatal, react_failed, react_keys>>
    /\ rate_limited' = FALSE
    /\ UNCHANGED first_rows
    /\ UNCHANGED <<peiVars, repVars, auxVars>>

\* the ways a Slack request fails: ok = False in the answer, or an exception;
\* a rate-limit response arrives as either, and no call site tells it from
\* another failure (rate_limited records it)
FailureKinds == {"error", "raise"}

\* a failed conversations_info that ends the channel loop
InfoFailAborts(kind) ==
    /\ pc = "info"
    /\ pc' = "assemble"
    /\ channel_info' = NoneV
    /\ messages' = <<>>
    /\ mi' = 0
    /\ NoHist /\ NoThread
    /\ UNCHANGED <<channel_id_list, ci, all_messages, df, ri, result>>
    /\ Requested
    /\ info_failed' = info_failed \cup {<<ci, kind>>}
    /\ UNCHANGED <<arg, registry_reads, hist_calls, fatal, react_failed, react_keys>>
    /\ rate_limited' \in BOOLEAN
    /\ LeavesFirstChannel
    /\ UNCHANGED <<peiVars, repVars, auxVars>>

\* conversations_info answers an error or raises: the channel is skipped
\* (message_retriever.py:175-180, 187-191, 68-69)
InfoFail(kind) ==
    /\ pc = "info"
    /\ IF kind = "raise" /\ Handler("conversations_info") = NoneV
       THEN Escapes
       ELSE /\ AfterChannel
            /\ NoHist /\ NoThread
            /\ UNCHANGED <<channel_id_list, all_messages, df, ri, result>>
    /\ Requested
    /\ info_failed' = info_failed \cup {<<ci, kind>>}
    /\ UNCHANGED <<arg, registry_reads, hist_calls, fatal, react_failed, react_keys>>
    /\ rate_limited' \in BOOLEAN
    /\ LeavesFirstChannel
    /\ UNCHANGED <<peiVars, repVars, auxVars>>

\* ----------------------------------------------- _get_channel_history
\* _get_channel_history returns msgs to get_channel_messages
\* (message_retriever.py:72-75)
HistoryReturns(msgs) ==
    IF msgs = <<>>
    THEN AfterChannel
    ELSE /\ messages' = msgs
         /\ mi' = 1
         /\ pc' = "process"
         /\ UNCHANGED <<ci, channel_info>>

\* the request of one loop iteration, as recorded (message_retriever.py:221-236)
HistRequested(h) ==
    [h EXCEPT !.reqs = CountReq(h.reqs),
              !.req_latest = Truthy(h.latest),
              !.req_cursor = Truthy(h.cursor)]

\* the loop body as it would be without the break on a missing cursor
HistAfterPageNoCursorBreak(h, page, has_more, next_cursor) ==
    LET h1 == [h EXCEPT !.all_messages = h.all_messages \o page,
                        !.page = page,
                        !.only_more_no_cursor =
                            h.only_more_no_cursor /\ has_more /\ ~Truthy(next_cursor)]
    IN  IF ~has_more
        THEN [h1 EXCEPT !.returned = TRUE]
        ELSE [h1 EXCEPT !.latest = IF page # <<>>
                                   THEN page[Len(page)].ts
                                   ELSE h1.latest,
                        !.cursor = next_cursor]

\* the loop body after an ok response (message_retriever.py:246-262):
\* the locals after it, with returned set when the loop breaks
HistAfterPage(h, page, has_more, next_cursor) ==
    LET h1 == [h EXCEPT !.all_messages = h.all_messages \o page,
                        !.page = page,
                        !.only_more_no_cursor =
                            h.only_more_no_cursor /\ has_more /\ ~Truthy(next_cursor)]
    IN  IF ~has_more
        THEN [h1 EXCEPT !.returned = TRUE]
        ELSE LET h2 == [h1 EXCEPT !.latest = IF page # <<>>
                                             THEN page[Len(page)].ts
                                             ELSE h1.latest,
                                  !.cursor = next_cursor]
             IN  IF ~Truthy(next_cursor)
                 THEN [h2 EXCEPT !.returned = TRUE]
                 ELSE h2

\* conversations_history answers ok with one page
HistoryPage(page, has_more, next_cursor) ==
    /\ Len(all_messages) + Len(hist.all_messages) + Len(page) <= MaxRows
    /\ LET h == HistAfterPage(HistRequested(hist), page, has_more, next_cursor)
       IN  /\ hist' = h
           /\ IF h.returned
              THEN HistoryReturns(h.all_messages)
              ELSE UNCHANGED <<pc, ci, channel_info, messages, mi>>
    /\ NoThread
    /\ UNCHANGED <<channel_id_list, all_messages, df, ri, result>>

\* whatever conversations_history can answer with ok
HistoryOk ==
    /\ pc = "history"
    /\ \E page \in SeqUpTo(ChannelMessages(Channel), MaxPageLen),
          has_more \in BOOLEAN, next_cursor \in Cursors :
            HistoryPage(page, has_more, next_cursor)
    /\ Requested
    /\ hist_calls' = hist_calls \cup {ci}
    /\ UNCHANGED <<arg, registry_reads, info_failed, fatal, react_failed, react_keys>>
    /\ rate_limited' = FALSE
    /\ LeavesFirstChannel
    /\ UNCHANGED <<peiVars, repVars, auxVars>>

\* conversations_history answers an error: the pages fetched so far are
\* returned (message_retriever.py:238-244)
HistoryError ==
    /\ pc = "history"
    /\ hist' = [HistRequested(hist) EXCEPT !.returned = TRUE, !.page = <<>>,
                                           !.only_more_no_cursor = FALSE,
                                           !.failed = TRUE]
    /\ HistoryReturns(hist.all_messages)
    /\ NoThread
    /\ Requested
    /\ hist_calls' = hist_calls \cup {ci}
    /\ UNCHANGED <<channel_id_list, all_messages, df, ri, result>>
    /\ UNCHANGED <<arg, registry_reads, info_failed, fatal, react_failed, react_keys>>
    /\ rate_limited' \in BOOLEAN
    /\ LeavesFirstChannel
    /\ UNCHANGED <<peiVars, repVars, auxVars>>

\* conversations_history raises: [] is returned (message_retriever.py:270-274)
HistoryRaise ==
    /\ pc = "history"
    /\ IF Handler("conversations_history") = NoneV
       THEN Escapes
       ELSE /\ hist' = [HistRequested(hist) EXCEPT !.returned = TRUE,
                                                   !.page = <<>>,
                                                   !.only_more_no_cursor = FALSE,
                                                   !.failed = TRUE]
            /\ HistoryReturns(<<>>)
            /\ NoThread
            /\ UNCHANGED <<channel_id_list, all_messages, df, ri, result>>
    /\ Requested
    /\ hist_calls' = hist_calls \cup {ci}
    /\ UNCHANGED <<arg, registry_reads, info_failed, fatal, react_failed, react_keys>>
    /\ rate_limited' \in BOOLEAN
    /\ LeavesFirstChannel
    /\ UNCHANGED <<peiVars, repVars, auxVars>>

\* one message of the channel history becomes a row; a thread root with
\* replies starts _get_thread_replies (message_retriever.py:75-113)
ProcessMessage ==
    /\ pc = "process"
    /\ LET message == messages[mi]
           row == HistoryRow(Channel, channel_info, message)
       IN  /\ all_messages' = Append(all_messages, row)
           /\ IF row.is_thread /\ message.reply_count > 0
              THEN /\ thr' = ThreadStart(message.thread_ts)
                   /\ pc' = "replies"
                   /\ UNCHANGED <<ci, channel_info, messages, mi>>
              ELSE /\ NoThread
                   /\ AfterMessage
    /\ NoHist
    /\ processed' = <<messages[mi]>>
    /\ UNCHANGED <<channel_id_list, df, ri, result>>
    /\ UNCHANGED <<arg, registry_reads, slack_calls, info_failed, hist_calls,
                   fatal, react_failed, react_answer, react_keys>>
    /\ rate_limited' = FALSE
    /\ LeavesFirstChannel
    /\ UNCHANGED <<peiVars, repVars, auxVars>>

\* ------------------------------------------------- _get_thread_replies
\* the request of one loop iteration, as recorded (message_retriever.py:299-315)
ThreadRequested(t) ==
    [t EXCEPT !.reqs = CountReq(t.reqs),
              !.req_latest = Truthy(t.latest),
              !.req_cursor = Truthy(t.cursor)]

\* the replies loop body as it would be if a page without cursor were
\* followed by a request bounded by latest alone
ThreadAfterPageLatestOnly(t, rows, page, has_more, next_cursor) ==
    LET t1 == [t EXCEPT !.thread_messages = t.thread_messages \o rows,
                        !.page = page,
                        !.only_more_no_cursor =
                            t.only_more_no_cursor /\ has_more /\ ~Truthy(next_cursor)]
    IN  IF ~has_more
        THEN [t1 EXCEPT !.returned = TRUE]
        ELSE LET t2 == [t1 EXCEPT !.latest = IF page # <<>>
                                             THEN page[Len(page)].ts
                                             ELSE t1.latest,
                                  !.cursor = next_cursor]
             IN  IF ~Truthy(next_cursor) /\ ~Truthy(t2.latest)
                 THEN [t2 EXCEPT !.returned = TRUE]
                 ELSE t2

\* the loop body after an ok response (message_retriever.py:323-352)
ThreadAfterPage(t, rows, page, has_more, next_cursor) ==
    LET t1 == [t EXCEPT !.thread_messages = t.thread_messages \o rows,
                        !.page = page,
                        !.only_more_no_cursor =
                            t.only_more_no_cursor /\ has_more /\ ~Truthy(next_cursor)]
    IN  IF ~has_more
        THEN [t1 EXCEPT !.returned = TRUE]
        ELSE LET t2 == [t1 EXCEPT !.latest = IF page # <<>>
                                             THEN page[Len(page)].ts
                                             ELSE t1.latest,
                                  !.cursor = next_cursor]
             IN  IF ~Truthy(next_cursor)
                 THEN [t2 EXCEPT !.returned = TRUE]
                 ELSE t2

\* _get_thread_replies returns and its rows are appended
\* (message_retriever.py:363, 113)
ThreadReturns(rows) ==
    /\ all_messages' = all_messages \o rows
    /\ AfterMessage

\* conversations_replies answers ok with one page
RepliesPage(page, has_more, next_cursor) ==
    /\ LET rows == ReplyRows(Channel, channel_info, thr.thread_ts, page)
           t == ThreadAfterPage(ThreadRequested(thr), rows, page, has_more, next_cursor)
       IN  /\ Len(all_messages) + (Len(messages) - mi)
                + Len(thr.thread_messages) + Len(rows) <= MaxRows
           /\ thr' = t
           /\ IF t.returned
              THEN ThreadReturns(t.thread_messages)
              ELSE UNCHANGED <<pc, ci, channel_info, messages, mi, all_messages>>
    /\ NoHist
    /\ UNCHANGED <<channel_id_list, df, ri, result>>

\* whatever conversations_replies can answer with ok
RepliesOk ==
    /\ pc = "replies"
    /\ \E page \in SeqUpTo(ThreadMessages(Channel, thr.thread_ts), MaxPageLen),
          has_more \in BOOLEAN, next_cursor \in Cursors :
            RepliesPage(page, has_more, next_cursor)
    /\ Requested
    /\ UNCHANGED <<arg, registry_reads, info_failed, hist_calls, fatal, react_failed, react_keys>>
    /\ rate_limited' = FALSE
    /\ LeavesFirstChannel
    /\ UNCHANGED <<peiVars, repVars, auxVars>>

\* conversations_replies answers an error (break) or raises (except): both
\* return the rows of the earlier pages (message_retriever.py:317-321, 358-363)
RepliesFail(kind) ==
    /\ pc = "replies"
    /\ IF kind = "raise" /\ Handler("conversations_replies") = NoneV
       THEN Escapes
       ELSE /\ thr' = [ThreadRequested(thr) EXCEPT !.returned = TRUE,
                                                   !.page = <<>>,
                                                   !.only_more_no_cursor = FALSE,
                                                   !.failed = TRUE]
            /\ ThreadReturns(thr.thread_messages)
            /\ NoHist
            /\ UNCHANGED <<channel_id_list, df, ri, result>>
    /\ Requested
    /\ UNCHANGED <<arg, registry_reads, info_failed, hist_calls, fatal, react_failed, react_keys>>
    /\ rate_limited' \in BOOLEAN
    /\ LeavesFirstChannel
    /\ UNCHANGED <<peiVars, repVars, auxVars>>

\* ------------------------------------------- the table and its reactions
\* df["ts_str"].astype(float) raises on a ts that is no number
\* (message_retriever.py:131)
ConversionRaises(rows) ==
    \E i \in 1..Len(rows) : ToFloat(rows[i].ts_str) = <<>>

\* pd.DataFrame(all_messages), the timestamp conversion, then drop_duplicates;
\* an exception of the conversion is caught by the outer except and an empty
\* table is returned (message_retriever.py:126-138, 155-157)
Assemble ==
    /\ pc = "assemble"
    /\ IF all_messages = <<>>
       THEN /\ df' = <<>>
            /\ result' = <<>>
            /\ pc' = "done"
            /\ ri' = 0
            /\ fatal' = fatal
       ELSE IF ConversionRaises(all_messages)
       THEN /\ fatal' = "astype"
            /\ IF Handler("astype") = NoneV
               THEN Escapes
               ELSE /\ df' = <<>>
                    /\ result' = <<>>
                    /\ pc' = "done"
                    /\ ri' = 0
       ELSE /\ df' = DropDuplicates(all_messages)
            /\ result' = result
            /\ pc' = "reactions"
            /\ ri' = 1
            /\ fatal' = fatal
    /\ NoHist /\ NoThread
    /\ processed' = <<>>
    /\ UNCHANGED <<channel_id_list, ci, channel_info, all_messages, messages, mi>>
    /\ UNCHANGED <<arg, registry_reads, slack_calls, info_failed, hist_calls,
                   react_failed, react_answer, react_keys>>
    /\ rate_limited' = FALSE
    /\ UNCHANGED first_rows
    /\ UNCHANGED <<peiVars, repVars, auxVars>>

\* the reactions of row ri are attached and the loop moves on; after the
\* last row the table is returned (message_retriever.py:141-153)
AttachReactions(reactions) ==
    /\ df' = [df EXCEPT ![ri].reactions = reactions]
    /\ IF ri < Len(df)
       THEN ri' = ri + 1 /\ pc' = "reactions" /\ result' = result
       ELSE ri' = ri /\ pc' = "done" /\ result' = df'
    /\ NoHist /\ NoThread
    /\ UNCHANGED <<channel_id_list, ci, channel_info, all_messages, messages, mi>>

\* reactions_get answers ok (message_retriever.py:380-398)
ReactionsOk ==
    /\ pc = "reactions"
    /\ \E reactions \in ReactionMaps :
          /\ AttachReactions(reactions)
          /\ react_answer' = <<ri, reactions>>
    /\ slack_calls' = CountReq(slack_calls)
    /\ processed' = <<>>
    /\ UNCHANGED <<arg, registry_reads, info_failed, hist_calls, fatal, react_failed>>
    /\ react_keys' = Append(react_keys, <<df[ri].channel_id, df[ri].ts_str>>)
    /\ rate_limited' = FALSE
    /\ UNCHANGED first_rows
    /\ UNCHANGED <<peiVars, repVars, auxVars>>

\* a failed reactions_get that ends the loop over the rows
ReactionsFailStops(kind) ==
    /\ pc = "reactions"
    /\ df' = [df EXCEPT ![ri].reactions = NoReactions]
    /\ ri' = ri
    /\ pc' = "done"
    /\ result' = df'
    /\ NoHist /\ NoThread
    /\ UNCHANGED <<channel_id_list, ci, channel_info, all_messages, messages, mi>>
    /\ Requested
    /\ react_failed' = react_failed \cup {ri}
    /\ UNCHANGED <<arg, registry_reads, info_failed, hist_calls, fatal>>
    /\ react_keys' = Append(react_keys, <<df[ri].channel_id, df[ri].ts_str>>)
    /\ rate_limited' \in BOOLEAN
    /\ UNCHANGED first_rows
    /\ UNCHANGED <<peiVars, repVars, auxVars>>

\* reactions_get answers an error or raises: {} (message_retriever.py:385-390, 400-404)
ReactionsFail(kind) ==
    /\ pc = "reactions"
    /\ IF kind = "raise" /\ Handler("reactions_get") = NoneV
       THEN Escapes
       ELSE AttachReactions(NoReactions)
    /\ Requested
    /\ react_failed' = react_failed \cup {ri}
    /\ UNCHANGED <<arg, registry_reads, info_failed, hist_calls, fatal>>
    /\ react_keys' = Append(react_keys, <<df[ri].channel_id, df[ri].ts_str>>)
    /\ rate_limited' \in BOOLEAN
    /\ UNCHANGED first_rows
    /\ UNCHANGED <<peiVars, repVars, auxVars>>

\* ------------------------------- handle_channel_select_submission
\* what generate_slack_report returns for an empty table (report_metrics.py:194)
NoMessagesFound == "No messages found in the specified time period"
\* what it returns when it caught an exception (report_metrics.py:214)
ErrorGenerating == "Sorry, there was an error generating the report"
\* what it returns otherwise: the payload of _format_slack_message, a
\* dict with the key "blocks" (report_metrics.py:210, 426-429)
BlocksPayload == "{blocks}"
\* the text of the error notification (report_metrics.py:166-171)
ErrorNotice == "Error generating report. Sorry, there was an error generating the report. Please try again later."

\* report["blocks"] (report_metrics.py:160): the blocks of a payload, NoneV
\* when the subscript raises TypeError because report is a str
BlocksOf(r) == IF r = BlocksPayload THEN "blocks" ELSE NoneV

\* the rows of a table per (channel_name, user_id, subtype)
TableOf(rows) ==
    [cell \in Cells |->
        Cardinality({i \in 1..Len(rows) :
            /\ rows[i].channel_name = cell[1]
            /\ rows[i].user_id = cell[2]
            /\ rows[i].subtype = cell[3]})]

\* df['channel_name'].unique(): the channel names in the order of their
\* first row (report_metrics.py:199, pei.py:57)
RECURSIVE UniqueNames(_, _)
UniqueNames(rows, seen) ==
    IF rows = <<>> THEN <<>>
    ELSE IF Head(rows).channel_name \in seen
         THEN UniqueNames(Tail(rows), seen)
         ELSE <<Head(rows).channel_name>>
                  \o UniqueNames(Tail(rows), seen \cup {Head(rows).channel_name})

\* get_channel_messages has returned to generate_slack_report: the retriever
\* and its locals are gone, and so is the table once the report is made
\* (report_metrics.py:229-233, 190)
Returned ==
    /\ pc' = "returned"
    /\ channel_id_list' = <<>>
    /\ ci' = 0
    /\ channel_info' = NoneV
    /\ all_messages' = <<>>
    /\ NoHist /\ NoThread
    /\ messages' = <<>>
    /\ mi' = 0
    /\ df' = <<>>
    /\ ri' = 0
    /\ result' = <<>>
    /\ arg' = <<>>
    /\ registry_reads' = 0
    /\ slack_calls' = 0
    /\ hist_calls' = {}
    /\ fatal' = NoneV
    /\ processed' = <<>>
    /\ react_failed' = {}
    /\ react_answer' = <<>>
    /\ rate_limited' = FALSE
    /\ react_keys' = <<>>
    /\ first_rows' = 0
    /\ info_failed' = info_failed

\* how a chat_postMessage of the handler ends: it returns, it raises
\* SlackApiError, or it raises another exception (a connection error)
PostOutcomes == {"ok", "SlackApiError", "Exception"}

\* what `except SlackApiError` lets through (report_metrics.py:150, 172)
NotCaughtAsSlackApiError(o) == o = "Exception"

\* the handler starts: the acknowledgment is posted; SlackApiError is caught
\* and the report is generated next, any other exception leaves the handler
\* (report_metrics.py:132-153)
Acknowledge ==
    /\ rep_pc = "idle"
    /\ pc = "idle"
    /\ \E o \in PostOutcomes :
          /\ ack' = o
          /\ rep_pc' = IF NotCaughtAsSlackApiError(o) THEN "raised" ELSE "generate"
    /\ attempts' = <<"ack">>
    /\ UNCHANGED <<report, outcome, posted, delivered>>
    /\ UNCHANGED <<retrVars, callVars, peiVars, auxVars>>

\* generate_slack_report from the return of get_channel_messages on: the
\* text for an empty table, else the metrics and the formatted payload, or
\* the error text when _format_slack_message raises
\* (report_metrics.py:188-214, 253-267)
GenerateSlackReport ==
    /\ pc = "done"
    /\ rep_pc = "generate"
    /\ Returned
    /\ IF result = <<>>
       THEN /\ report' = NoMessagesFound
            /\ outcome' = "empty"
            /\ UNCHANGED peiVars
       ELSE /\ pei_df' = TableOf(result)
            /\ \E fault \in SUBSET {result[i].channel_name : i \in 1..Len(result)} :
                  ComputeWith(UniqueNames(result, {}), fault)
            /\ \E format_raises \in BOOLEAN :
                  IF format_raises
                  THEN report' = ErrorGenerating /\ outcome' = "error"
                  ELSE report' = BlocksPayload /\ outcome' = "report"
    /\ rep_pc' = "post"
    /\ posted' = NoneV
    /\ UNCHANGED <<ack, attempts, delivered>>
    /\ UNCHANGED auxVars

\* the handler posts the report; when report["blocks"] or the post raises
\* it posts the error notification instead; of that post SlackApiError is
\* caught, any other exception leaves the handler (report_metrics.py:157-173)
PostReport ==
    /\ rep_pc = "post"
    /\ \E post \in PostOutcomes, notice \in PostOutcomes :
          IF BlocksOf(report) # NoneV /\ post = "ok"
          THEN /\ posted' = BlocksOf(report)
               /\ attempts' = Append(attempts, "report")
               /\ delivered' = Append(delivered, BlocksOf(report))
               /\ rep_pc' = "handled"
          ELSE /\ attempts' = attempts
                       \o (IF BlocksOf(report) # NoneV THEN <<"report">> ELSE <<>>)
                       \o <<"notice">>
               /\ posted' = IF notice = "ok" THEN ErrorNotice ELSE NoneV
               /\ delivered' = IF notice = "ok" THEN Append(delivered, ErrorNotice)
                                ELSE delivered
               /\ rep_pc' = IF NotCaughtAsSlackApiError(notice) THEN "raised"
                             ELSE "handled"
    /\ UNCHANGED <<report, outcome, ack>>
    /\ UNCHANGED <<retrVars, callVars, peiVars, auxVars>>

\* ------------------------------------------- the /pulse-report command
\* longest command text tried
MaxTextLen == 3

\* the characters of the command texts
TextChars == {" ", "-", "0", "1", "7", "a"}
\* the texts a user can type after /pulse-report
CommandTexts == SeqUpTo(TextChars, MaxTextLen)

\* the decimal digits, in order
DigitChars == <<"0", "1", "2", "3", "4", "5", "6", "7", "8", "9">>
IsDigit(c) == \E d \in 1..10 : DigitChars[d] = c
DigitVal(c) == (CHOOSE d \in 1..10 : DigitChars[d] = c) - 1

\* str.strip(): without the blanks at both ends (app.py:87, 89)
RECURSIVE LStrip(_)
LStrip(s) == IF s # <<>> /\ Head(s) = " " THEN LStrip(Tail(s)) ELSE s
Strip(s) == Reverse(LStrip(Reverse(LStrip(s))))

\* the number written by a string of digits
RECURSIVE ValOf(_)
ValOf(s) ==
    IF s = <<>> THEN 0
    ELSE 10 * ValOf(SubSeq(s, 1, Len(s) - 1)) + DigitVal(s[Len(s)])

AllDigits(s) == s # <<>> /\ \A i \in 1..Len(s) : IsDigit(s[i])

\* int(s) of a stripped string: <<the number>>, or <<>> when it raises
\* ValueError (app.py:89, 96; app.py:114)
IntOf(s) ==
    IF s # <<>> /\ Head(s) = "-"
    THEN (IF AllDigits(Tail(s)) THEN <<0 - ValOf(Tail(s))>> ELSE <<>>)
    ELSE IF AllDigits(s) THEN <<ValOf(s)>>
    ELSE <<>>

\* str(n) of an integer (report_metrics.py:87)
RECURSIVE StrOfNat(_)
StrOfNat(n) ==
    IF n < 10 THEN <<DigitChars[n + 1]>>
    ELSE Append(StrOfNat(n \div 10), DigitChars[(n % 10) + 1])
StrOfInt(n) == IF n < 0 THEN <<"-">> \o StrOfNat(0 - n) ELSE StrOfNat(n)

\* a check that lets 0 through
NegativeDays(days) == days < 0

\* days <= 0 (app.py:90)
NonPositiveDays(days) == days <= 0

\* a user types /pulse-report with a text
CommandReceived ==
    /\ cmd_pc = "idle"
    /\ cmd_text' \in CommandTexts
    /\ cmd_pc' = "command"
    /\ UNCHANGED <<cmd_reply, modal, days_arg>>
    /\ UNCHANGED <<retrVars, callVars, peiVars, repVars, trkVars, quizVars>>

\* pulse_report_command: 30 days for an empty text; a correction message
\* and no modal for a text that is no integer or not positive; else
\* open_channel_select_modal, whose views_open stores str(days) in the
\* modal or raises (app.py:81-106, report_metrics.py:44-120)
PulseReportCommand ==
    /\ cmd_pc = "command"
    /\ LET text == Strip(cmd_text)
           parsed == IntOf(text)
       IN  IF text # <<>> /\ parsed = <<>>
           THEN /\ cmd_reply' = "Please provide a valid number of days"
                /\ modal' = <<>>
                /\ cmd_pc' = "answered"
           ELSE IF text # <<>> /\ NonPositiveDays(parsed[1])
           THEN /\ cmd_reply' = "Please provide a positive number of days"
                /\ modal' = <<>>
                /\ cmd_pc' = "answered"
           ELSE LET days == IF text = <<>> THEN 30 ELSE parsed[1]
                IN  /\ cmd_reply' = NoneV
                    /\ \E opened \in BOOLEAN :
                          IF opened
                          THEN modal' = StrOfInt(days) /\ cmd_pc' = "modal"
                          ELSE modal' = <<>> /\ cmd_pc' = "answered"
    /\ UNCHANGED <<cmd_text, days_arg>>
    /\ UNCHANGED <<retrVars, callVars, peiVars, repVars, trkVars, quizVars>>

\* the modal is submitted: the wrapper reads days back from
\* private_metadata and hands it to the report handler, which passes it on
\* to generate_slack_report and so to get_channel_messages unless it ends
\* before (app.py:109-124, report_metrics.py:155, 186, 230-232)
HandleChannelSelectSubmission ==
    /\ cmd_pc = "modal"
    /\ LET days == IntOf(modal)
       IN  \E generated \in BOOLEAN :
              days_arg' = IF days # <<>> /\ generated THEN days ELSE <<>>
    /\ cmd_pc' = "submitted"
    /\ UNCHANGED <<cmd_text, cmd_reply, modal>>
    /\ UNCHANGED <<retrVars, callVars, peiVars, repVars, trkVars, quizVars>>

NextCommand ==
    \/ CommandReceived
    \/ PulseReportCommand
    \/ HandleChannelSelectSubmission

SpecCommand == Init /\ [][NextCommand]_vars

\* ------------------------------------------------------ ChannelTracker
\* most pages conversations_list answers in one listing
MaxListPages == 2

\* the public channels of the workspace as conversations_list reports them
PublicChannels ==
    {[id |-> "C1", is_member |-> TRUE], [id |-> "C2", is_member |-> TRUE],
     [id |-> "C3", is_member |-> FALSE]}

\* the pages conversations_list can answer after the channels of listed:
\* every channel is listed once
ListPages(listed) ==
    {p \in SeqUpTo(PublicChannels, MaxPageLen) :
        /\ \A i, j \in 1..Len(p) : i # j => p[i] # p[j]
        /\ \A i \in 1..Len(p), j \in 1..Len(listed) : p[i] # listed[j]}

\* [channel["id"] for channel in channels if channel.get("is_member", False)]
\* (channel_utils.py:34-37)
RECURSIVE MemberIds(_)
MemberIds(channels) ==
    IF channels = <<>> THEN <<>>
    ELSE (IF Head(channels).is_member THEN <<Head(channels).id>> ELSE <<>>)
             \o MemberIds(Tail(channels))

\* ",".join(ids) (channel_utils.py:40)
RECURSIVE Join(_)
Join(ids) ==
    IF ids = <<>> THEN <<>>
    ELSE IF Len(ids) = 1 THEN <<ids[1]>>
    ELSE <<ids[1], ",">> \o Join(Tail(ids))

\* s.split(","): the pieces between the commas, "" for an empty piece
\* (channel_utils.py:103)
RECURSIVE Split(_, _)
Split(s, piece) ==
    IF s = <<>> THEN <<piece>>
    ELSE IF Head(s) = "," THEN <<piece>> \o Split(Tail(s), "")
    ELSE Split(Tail(s), Head(s))

\* the list read without the guard on an empty string
GetInstalledChannelsUnguarded(e) == Split(e, "")

\* channels_str.split(",") if channels_str else [] (channel_utils.py:102-103)
GetInstalledChannels(e) == IF e # <<>> THEN Split(e, "") ELSE <<>>

\* update_installed_channels is called, at start-up or by the scheduler,
\* and _fetch_public_channels starts (channel_utils.py:29-31, 56-58)
UpdateStart ==
    /\ trk_pc = "idle"
    /\ trk_pc' = "listing"
    /\ trk_all' = <<>>
    /\ trk_cursor' = NoneV
    /\ trk_listed' = <<>>
    /\ trk_end' = NoneV
    /\ UNCHANGED <<env, last_members, expected_list>>
    /\ UNCHANGED <<retrVars, callVars, peiVars, repVars, cmdVars, quizVars>>

\* _fetch_public_channels has returned channels: the ids of the member
\* channels are stored (channel_utils.py:34-40)
Store(channels, how) ==
    /\ last_members' = MemberIds(channels)
    /\ env' = Join(MemberIds(channels))
    /\ trk_end' = how
    /\ trk_pc' = "idle"

\* conversations_list answers ok with a page; without next_cursor the listing
\* is over (channel_utils.py:72-89)
ListOk ==
    /\ trk_pc = "listing"
    /\ Len(trk_listed) < MaxListPages
    /\ \E page \in ListPages(trk_all), next_cursor \in Cursors :
          /\ trk_all' = trk_all \o page
          /\ trk_listed' = Append(trk_listed, page)
          /\ IF ~Truthy(next_cursor)
             THEN /\ Store(trk_all', "ok")
                  /\ trk_cursor' = trk_cursor
             ELSE /\ trk_cursor' = next_cursor
                  /\ UNCHANGED <<trk_pc, trk_end, env, last_members>>
    /\ UNCHANGED expected_list
    /\ UNCHANGED <<retrVars, callVars, peiVars, repVars, cmdVars, quizVars>>

\* conversations_list answers an error: the channels of the pages so far are
\* returned (channel_utils.py:74-76)
ListError ==
    /\ trk_pc = "listing"
    /\ Store(trk_all, "error")
    /\ UNCHANGED <<trk_all, trk_cursor, trk_listed, expected_list>>
    /\ UNCHANGED <<retrVars, callVars, peiVars, repVars, cmdVars, quizVars>>

\* conversations_list raises: [] is returned (channel_utils.py:91-93)
ListRaise ==
    /\ trk_pc = "listing"
    /\ Store(<<>>, "raise")
    /\ UNCHANGED <<trk_all, trk_cursor, trk_listed, expected_list>>
    /\ UNCHANGED <<retrVars, callVars, peiVars, repVars, cmdVars, quizVars>>

\* a report for all channels: get_channel_messages(channel_id_list=None)
\* reads the stored list and starts on it, whatever the tracker is doing
\* (message_retriever.py:55-64, channel_utils.py:102-103)
CallStored ==
    /\ pc \in {"idle", "info", "done"}
    /\ arg' = Omitted
    /\ registry_reads' = 1
    /\ Start(GetInstalledChannels(env))
    /\ expected_list' = last_members
    /\ UNCHANGED <<trk_pc, trk_all, trk_cursor, trk_listed, trk_end, env, last_members>>
    /\ UNCHANGED <<peiVars, repVars, cmdVars, quizVars>>

NextTracker ==
    \/ UpdateStart
    \/ ListOk
    \/ ListError
    \/ ListRaise
    \/ CallStored

SpecTracker == Init /\ [][NextTracker]_vars

\* ------------------------------------------------------------- quiz
\* the self-assessment quiz of SkillAssessmentHandler, for one user

MaxAssessments == 2   \* the assessment results sent to the user

\* the skills of the model and the questions of the quiz file: "s3" has no
\* question (skill_assessment.py:26-31)
QuizSkills == {"s1", "s2", "s3"}

QuizData ==
    <<[id |-> "q1", skills |-> {"s1"}],
      [id |-> "q2", skills |-> {"s1", "s2"}]>>

\* the values of the answer buttons that are clicked
AnswerValues == {"1", "5"}

\* how a chat_postMessage of a quiz handler ends
QuizPosts == {"ok", "SlackApiError"}

\* the questions with one of the unassessed skills, in the order of the file
RelevantQuestions(unassessed_skills) ==
    SelectSeq(QuizData, LAMBDA question : question.skills \cap unassessed_skills # {})

SampleSize == 5

\* random.sample(population, k): k different elements, in any order
Sample(population, k) ==
    {s \in [1..k -> {population[i] : i \in 1..Len(population)}] :
        \A i, j \in 1..k : i # j => s[i] # s[j]}

SelectedQuestions(relevant_questions) ==
    Sample(relevant_questions,
           IF SampleSize < Len(relevant_questions) THEN SampleSize
           ELSE Len(relevant_questions))

\* the state _send_results_to_user stores for the user
NewQuizState(unassessed_skills) ==
    [unassessed_skills |-> unassessed_skills,
     current_question |-> 0,
     answers |-> {},
     questions |-> <<>>]

\* indices are those of the code: questions[i] of the code is questions[i + 1]
ValidIndex(quiz_data) ==
    quiz_data.current_question < Len(quiz_data.questions)

\* _show_quiz_results on the state quiz_data: the result text is the first
\* post; a post that raises leaves the method before the state is deleted
ShowQuizResults(quiz_data, post, shown) ==
    /\ answer_buttons' = answer_buttons
    /\ IF post = "ok"
       THEN /\ results_shown' = results_shown + 1
            /\ user_quiz_data' = <<>>
            /\ quiz_pc' = "results"
       ELSE /\ results_shown' = results_shown + (IF shown THEN 1 ELSE 0)
            /\ user_quiz_data' = <<quiz_data>>
            /\ quiz_pc' = "raised"

\* _send_quiz_question(user_id, question_index) on the state quiz_data
SendQuizQuestion(quiz_data, question_index, post, shown) ==
    IF question_index >= Len(quiz_data.questions)
    THEN ShowQuizResults(quiz_data, post, shown)
    ELSE /\ user_quiz_data' = <<[quiz_data EXCEPT !.current_question = question_index]>>
         /\ answer_buttons' =
                IF post = "ok" THEN answer_buttons \cup {question_index}
                ELSE answer_buttons
         /\ quiz_pc' = IF post = "ok" THEN "question" ELSE "raised"
         /\ results_shown' = results_shown

\* _send_results_to_user with the skills of score 0 in unassessed_skills
SendResultsToUser ==
    /\ assessments < MaxAssessments
    /\ \E unassessed_skills \in SUBSET QuizSkills, post \in QuizPosts :
          /\ quiz_handler' = "_send_results_to_user"
          /\ assessments' = assessments + 1
          /\ slack_failed' = (slack_failed \/ post # "ok")
          /\ IF unassessed_skills # {}
             THEN /\ user_quiz_data' = <<NewQuizState(unassessed_skills)>>
                  /\ start_button' = (start_button \/ post = "ok")
                  /\ quiz_pc' = IF post = "ok" THEN "offered" ELSE "caught"
             ELSE /\ UNCHANGED <<user_quiz_data, start_button>>
                  /\ quiz_pc' = IF post = "ok" THEN "recommended" ELSE "caught"
    /\ UNCHANGED <<answer_buttons, results_shown>>
    /\ UNCHANGED <<retrVars, callVars, peiVars, repVars, cmdVars, trkVars>>

\* a click on a Start Quiz button
StartQuiz ==
    /\ start_button
    /\ \E post \in QuizPosts :
          /\ quiz_handler' = "start_quiz"
          /\ slack_failed' = (slack_failed \/ post # "ok")
          /\ IF user_quiz_data = <<>>
             THEN /\ quiz_pc' = IF post = "ok" THEN "sorry" ELSE "raised"
                  /\ UNCHANGED <<user_quiz_data, answer_buttons, results_shown>>
             ELSE LET quiz_data == user_quiz_data[1]
                      relevant_questions == RelevantQuestions(quiz_data.unassessed_skills)
                  IN  IF relevant_questions = <<>>
                      THEN /\ quiz_pc' = IF post = "ok" THEN "sorry" ELSE "raised"
                           /\ UNCHANGED <<user_quiz_data, answer_buttons, results_shown>>
                      ELSE \E selected_questions \in SelectedQuestions(relevant_questions) :
                              SendQuizQuestion(
                                  [quiz_data EXCEPT !.questions = selected_questions],
                                  0, post, FALSE)
    /\ UNCHANGED <<start_button, assessments>>
    /\ UNCHANGED <<retrVars, callVars, peiVars, repVars, cmdVars, trkVars>>

\* a click on an answer button of the question message with index button
HandleQuizAnswer(button) ==
    /\ button \in answer_buttons
    /\ \E value \in AnswerValues, post \in QuizPosts, shown \in BOOLEAN :
          /\ post = "ok" => ~shown
          /\ shown => results_shown < MaxAssessments
          /\ quiz_handler' = "handle_quiz_answer"
          /\ IF user_quiz_data = <<>>
             THEN /\ quiz_pc' = "ignored"
                  /\ post = "ok"
                  /\ UNCHANGED <<user_quiz_data, answer_buttons, results_shown, slack_failed>>
             ELSE LET quiz_data == user_quiz_data[1]
                      current_question == quiz_data.current_question
                  IN  IF ~ValidIndex(quiz_data)
                      THEN /\ quiz_pc' = "IndexError"
                           /\ post = "ok"
                           /\ UNCHANGED <<user_quiz_data, answer_buttons, results_shown,
                                          slack_failed>>
                      ELSE /\ shown => current_question + 1 >= Len(quiz_data.questions)
                           /\ slack_failed' = (slack_failed \/ post # "ok")
                           /\ SendQuizQuestion(
                                  [quiz_data EXCEPT !.answers =
                                       {a \in @ : a[1] # current_question}
                                           \cup {<<current_question, DigitVal(value)>>}],
                                  current_question + 1, post, shown)
    /\ UNCHANGED <<start_button, assessments>>
    /\ UNCHANGED <<retrVars, callVars, peiVars, repVars, cmdVars, trkVars>>

NextQuiz ==
    \/ SendResultsToUser
    \/ StartQuiz
    \/ \E button \in 0..9 : HandleQuizAnswer(button)

SpecQuiz == Init /\ [][NextQuiz]_vars

\* ------------------------------------------------------------- Next
Next ==
    \/ Acknowledge
    \/ \E list \in ChannelLists : Call(list)
    \/ CallOmitted
    \/ CallRegistryRaises
    \/ InfoOk
    \/ \E kind \in FailureKinds : InfoFail(kind)
    \/ HistoryOk
    \/ HistoryError
    \/ HistoryRaise
    \/ ProcessMessage
    \/ RepliesOk
    \/ \E kind \in FailureKinds : RepliesFail(kind)
    \/ Assemble
    \/ ReactionsOk
    \/ \E kind \in FailureKinds : ReactionsFail(kind)
    \/ GenerateSlackReport
    \/ PostReport

Spec == Init /\ [][Next]_vars

\* compute applied to each of the input tables
InitPEI ==
    /\ RetrInit
    /\ RepIdle
    /\ AuxIdle
    /\ pei_pc = "input"
    /\ pei_df \in InputTables
    /\ pei_values = EmptyMap
    /\ pei_order = <<>>
    /\ pei_fault = {}

NextPEI == Compute

SpecPEI == InitPEI /\ [][NextPEI]_vars

\* compute applied to the tables of FaultTables, with exceptions in the loop
InitPEIRaising ==
    /\ RetrInit
    /\ RepIdle
    /\ AuxIdle
    /\ pei_pc = "input"
    /\ pei_df \in FaultTables
    /\ pei_values = EmptyMap
    /\ pei_order = <<>>
    /\ pei_fault = {}

NextPEIRaising == ComputeRaising

SpecPEIRaising == InitPEIRaising /\ [][NextPEIRaising]_vars

\* every Slack call is answered and the retriever then takes its next step
FairSpec == Init /\ [][Next]_vars /\ WF_retrVars(Next)

\* ------------------------------------------------------------ claims
\* a row without what the reactions lookup attached
WithoutReactions(r) == [r EXCEPT !.reactions = NoReactions]

\* the indices of the rows that are the first of their key in rows
FirstOfKey(rows) ==
    {i \in 1..Len(rows) : \A j \in 1..(i - 1) : RowKey(rows[j]) # RowKey(rows[i])}

\* C1: in the returned table no two rows share the key (channel_id, ts_str,
\* user_id, message); unless the timestamp conversion raised and the table
\* returned is the empty one, the row kept for a key is the first one
\* assembled with that key, and the kept rows are in assembly order.
C1_UniqueFirstInOrder ==
    pc = "done" =>
        LET F == IF fatal = NoneV THEN FirstOfKey(all_messages) ELSE {}
        IN  /\ \A i, j \in 1..Len(result) :
                  i # j => RowKey(result[i]) # RowKey(result[j])
            /\ Len(result) = Cardinality(F)
            /\ \A i \in F :
                  WithoutReactions(result[Cardinality({j \in F : j <= i})])
                      = all_messages[i]

\* C1 witness: a table returned after duplicates were dropped from between
\* rows that were kept
C1_Witness ==
    /\ pc = "done"
    /\ Len(result) >= 2
    /\ Len(result) < Len(all_messages)
    /\ \E i, j \in 1..Len(all_messages) :
          /\ i + 1 < j
          /\ RowKey(all_messages[i]) = RowKey(all_messages[j])
          /\ RowKey(all_messages[i + 1]) # RowKey(all_messages[i])

\* C2: as soon as every answer a call of _get_channel_history or
\* _get_thread_replies has received had has_more true and no next_cursor, the
\* call has returned, after exactly one request, with the messages of that one
\* page (for the replies: the rows of that page after its first message).
C2_StopsWithoutCursor ==
    /\ (hist.reqs >= 1 /\ hist.only_more_no_cursor) =>
          (hist.returned /\ hist.reqs = 1 /\ messages = hist.page)
    /\ (thr.reqs >= 1 /\ thr.only_more_no_cursor) =>
          /\ thr.returned
          /\ thr.reqs = 1
          /\ Len(thr.thread_messages) =
                (IF Len(thr.page) > 1 THEN Len(thr.page) - 1 ELSE 0)
          /\ \A i \in 1..Len(thr.thread_messages) :
                /\ thr.thread_messages[i].ts_str = thr.page[i + 1].ts
                /\ thr.thread_messages[i].message = thr.page[i + 1].text

\* C2 witness: _get_channel_history has returned a full page that came with
\* has_more true and no cursor
C2_Witness ==
    /\ hist.returned
    /\ hist.only_more_no_cursor
    /\ Len(hist.page) = MaxPageLen
    /\ messages = hist.page

\* C3: every pagination loop ends, also when every page is answered ok with
\* has_more true and a next_cursor: a retrieval that was started always
\* reaches its return.
C3_PaginationTerminates ==
    (pc \in {"info", "history", "process", "replies", "assemble", "reactions"})
        ~> (pc = "done")

\* the row r is a thread root that declared reply_count > 0
DeclaredReplies(r) ==
    /\ r.is_parent = PyTrue
    /\ \E m \in ChannelMessages(r.channel_id) :
          m.ts = r.ts_str /\ m.reply_count > 0

\* C10 as stated: in the returned table every row whose thread_id is the
\* ts_str of a thread root P with reply_count > 0, other than P itself, has
\* is_thread = true and is_parent = false.
C10_AnyChannel ==
    pc = "done" =>
        \A i, j \in 1..Len(result) :
            (/\ DeclaredReplies(result[i])
             /\ i # j
             /\ result[j].thread_id = result[i].ts_str)
            => (result[j].is_thread /\ result[j].is_parent = PyFalse)

\* C10 amended: in the returned table every row of the channel of a thread
\* root P with reply_count > 0 whose thread_id is P's ts_str, other than P
\* itself, has is_thread = true and is_parent = false.
C10_SameChannel ==
    pc = "done" =>
        \A i, j \in 1..Len(result) :
            (/\ DeclaredReplies(result[i])
             /\ i # j
             /\ result[j].channel_id = result[i].channel_id
             /\ result[j].thread_id = result[i].ts_str)
            => (result[j].is_thread /\ result[j].is_parent = PyFalse)

\* C10 witness: the returned table holds a thread root with replies and a
\* reply of its thread fetched by _get_thread_replies
C10_Witness ==
    /\ pc = "done"
    /\ \E i, j \in 1..Len(result) :
          /\ DeclaredReplies(result[i])
          /\ i < j
          /\ result[j].channel_id = result[i].channel_id
          /\ result[j].thread_id = result[i].ts_str
          /\ result[j].ts_str # result[i].ts_str
          /\ Len(all_messages) = Len(result)

\* --------------------------------------------------- claims about PEI
\* the number of counted rows (subtype message or thread_broadcast) of user u
\* in channel c
CountedRows(table, c, u) == table[<<c, u, "message">>] + table[<<c, u, "thread_broadcast">>]

\* the users with at least one counted row in channel c
Posters(table, c) == {u \in PeiUsers : CountedRows(table, c, u) > 0}

\* the number of counted rows of channel c
RECURSIVE TotalOf(_, _, _)
TotalOf(table, c, users) ==
    IF users = {} THEN 0
    ELSE LET u == CHOOSE v \in users : TRUE
         IN  CountedRows(table, c, u) + TotalOf(table, c, users \ {u})

TotalCounted(table, c) == TotalOf(table, c, PeiUsers)

\* C4: every PEI value compute returns lies in [0,1]: its channel has at least
\* 2 users and 10 counted messages, and 0 <= |weighted sum| <= n * total.
C4_PeiInUnitInterval ==
    pei_pc = "done" =>
        \A c \in DOMAIN pei_values :
            /\ Cardinality(Posters(pei_df, c)) >= 2
            /\ TotalCounted(pei_df, c) >= 10
            /\ pei_values[c][2] = Cardinality(Posters(pei_df, c)) * TotalCounted(pei_df, c)
            /\ 0 <= pei_values[c][1]
            /\ pei_values[c][1] <= pei_values[c][2]

\* C4 witness: a value strictly between 0 and 1 returned for three users with
\* three different counts
C4_Witness ==
    /\ pei_pc = "done"
    /\ "general" \in DOMAIN pei_values
    /\ 0 < pei_values["general"][1]
    /\ pei_values["general"][1] < pei_values["general"][2]
    /\ Cardinality({CountedRows(pei_df, "general", u) : u \in PeiUsers}) = 3
    /\ Posters(pei_df, "general") = PeiUsers

\* every poster of channel c has exactly k counted rows
AllPosted(table, c, k) == \A u \in Posters(table, c) : CountedRows(table, c, u) = k

\* C5: a channel whose n >= 2 users each posted the same number k >= 5 of
\* counted messages gets the PEI 1 exactly.
C5_EqualCountsGiveOne ==
    pei_pc = "done" =>
        \A c \in PeiChannels :
            (/\ Cardinality(Posters(pei_df, c)) >= 2
             /\ \E k \in 5..(MaxCount + MaxOther) : AllPosted(pei_df, c, k))
            => (/\ c \in DOMAIN pei_values
                /\ pei_values[c][1] = pei_values[c][2])

\* C5 witness: three users with 5 counted messages each in "general", two users
\* with 5 each in "random", and both channels have a value
C5_Witness ==
    /\ pei_pc = "done"
    /\ Posters(pei_df, "general") = PeiUsers
    /\ AllPosted(pei_df, "general", 5)
    /\ Cardinality(Posters(pei_df, "random")) = 2
    /\ AllPosted(pei_df, "random", 5)
    /\ DOMAIN pei_values = PeiChannels

\* user A posted 9 and user B 1 counted messages in channel c, nobody else any
NineAndOne(table, c) ==
    /\ Cardinality(Posters(table, c)) = 2
    /\ \E a, b \in Posters(table, c) :
          CountedRows(table, c, a) = 9 /\ CountedRows(table, c, b) = 1

\* C6 as stated: with 9 and 1 counted messages of two users the Gini
\* coefficient is 0.8 and the PEI returned is 0.2.
C6_GiniEightTenths ==
    pei_pc = "done" =>
        \A c \in PeiChannels :
            NineAndOne(pei_df, c) =>
                /\ c \in DOMAIN pei_values
                /\ 10 * Gini(SortedCounts(pei_df, c))[1] = 8 * Gini(SortedCounts(pei_df, c))[2]
                /\ 10 * pei_values[c][1] = 2 * pei_values[c][2]

\* C6 amended: with 9 and 1 counted messages of two users the Gini
\* coefficient of the formula is 0.4 (8 / 20) and the PEI returned is 0.6.
C6_GiniFourTenths ==
    pei_pc = "done" =>
        \A c \in PeiChannels :
            NineAndOne(pei_df, c) =>
                /\ c \in DOMAIN pei_values
                /\ Gini(SortedCounts(pei_df, c)) = <<8, 20>>
                /\ pei_values[c] = <<12, 20>>

\* C6 witness: compute has returned for a table where U2 posted 9 and U1
\* posted 1 counted message in "general"
C6_Witness ==
    /\ pei_pc = "done"
    /\ NineAndOne(pei_df, "general")
    /\ CountedRows(pei_df, "general", "U2") = 9
    /\ CountedRows(pei_df, "general", "U1") = 1
    /\ "general" \in DOMAIN pei_values

\* C7: a channel whose counted messages all come from one user has no PEI.
C7_SingleUserNoValue ==
    pei_pc = "done" =>
        \A c \in PeiChannels :
            Cardinality(Posters(pei_df, c)) = 1 => c \notin DOMAIN pei_values

\* C7 witness: compute has returned for a table where one user alone posted
\* 10 counted messages in "general" and the other channel got a value
C7_Witness ==
    /\ pei_pc = "done"
    /\ Posters(pei_df, "general") = {"U1"}
    /\ CountedRows(pei_df, "general", "U1") >= MIN_MESSAGES_FOR_PEI
    /\ DOMAIN pei_values = {"random"}

\* C8: the keys of the returned mapping are exactly the channels with at least
\* 2 users and at least 10 counted messages.
C8_KeysAreComputableChannels ==
    pei_pc = "done" =>
        DOMAIN pei_values =
            {c \in PeiChannels :
                /\ Cardinality(Posters(pei_df, c)) >= 2
                /\ TotalCounted(pei_df, c) >= 10}

\* C8 witness: "general" has a value with exactly 10 counted messages, one of
\* them a thread_broadcast, and "random" with rows but only 5 counted has none
C8_Witness ==
    /\ pei_pc = "done"
    /\ DOMAIN pei_values = {"general"}
    /\ TotalCounted(pei_df, "general") = 10
    /\ pei_df[<<"general", "U1", "thread_broadcast">>] = 1
    /\ TotalCounted(pei_df, "random") = 5

\* the table without its rows of a subtype other than message and
\* thread_broadcast
WithoutOtherRows(table) ==
    [cell \in Cells |->
        IF cell[3] \in {"message", "thread_broadcast"} THEN table[cell] ELSE 0]

\* C9: rows of another subtype change nothing: the per-user counts, the keys
\* and the values compute returns are those of the table without these rows.
C9_OtherSubtypesIgnored ==
    pei_pc = "done" =>
        /\ \A c \in PeiChannels, u \in PeiUsers :
              UserCount(pei_df, c, u) = UserCount(WithoutOtherRows(pei_df), c, u)
        /\ pei_values = ComputePEI(WithoutOtherRows(pei_df))

\* C9 witness: compute has returned a value for "general", which holds a
\* channel_join row of a user without any counted message, and none for
\* "random", which holds channel_join rows only
C9_Witness ==
    /\ pei_pc = "done"
    /\ pei_df[<<"general", "U3", "channel_join">>] > 0
    /\ "U3" \notin Posters(pei_df, "general")
    /\ DOMAIN pei_values = {"general"}
    /\ pei_df[<<"random", "U1", "channel_join">>] > 0
    /\ Posters(pei_df, "random") = {}

\* the positions of channel_id_list whose conversations_info failed
FailedPositions == {f[1] : f \in info_failed}

\* the keys of the rows of a table
KeysOf(rows) == {RowKey(rows[i]) : i \in 1..Len(rows)}

C12_AssembledRowsAreReturned ==
    pc = "done" /\ all_messages # <<>> => result # <<>>

\* C13: a history fetch or a replies fetch that returns because a request
\* failed returns nothing: no message, respectively no row, of its earlier
\* pages.
C13_FailedFetchContributesNothing ==
    /\ hist.returned /\ hist.failed => messages = <<>>
    /\ thr.returned /\ thr.failed => thr.thread_messages = <<>>

\* C14: no exception leaves get_channel_messages or compute: neither call
\* ever ends by raising.
C14_NoExceptionPropagates ==
    /\ pc # "raised"
    /\ pei_pc # "raised"

\* C14 witness: a retrieval during which conversations_info raised returned a
\* table, and compute returned although the loop body of one of its channels
\* raised
C14_Witness ==
    /\ pc = "returned"
    /\ \E f \in info_failed : f[2] = "raise"
    /\ pei_pc = "done"
    /\ \E i \in 1..Len(pei_order) : pei_order[i] \in pei_fault

\* C15: a failed reactions lookup (error response or exception) leaves its row
\* in the table with the empty mapping and the loop goes on: every row of the
\* deduplicated table is returned, each after a lookup of its own, the rows
\* whose lookup failed with the empty mapping, and the row of an answered
\* lookup with the reactions of the answer whichever lookups failed before.
C15_FailedLookupLeavesEmptyMapping ==
    /\ pc \in {"reactions", "done"} =>
          /\ \A i \in react_failed : i <= Len(df) /\ df[i].reactions = NoReactions
          /\ react_answer # <<>> =>
                df[react_answer[1]].reactions = react_answer[2]
    /\ pc = "done" /\ fatal = NoneV /\ all_messages # <<>> =>
          /\ ri = Len(result)
          /\ Len(result) = Len(DropDuplicates(all_messages))
          /\ \A i \in 1..Len(result) :
                WithoutReactions(result[i]) = DropDuplicates(all_messages)[i]

\* C15 witness: the lookup of the first row failed, the lookup of the second
\* row was answered with a reaction, and both rows are returned
C15_Witness ==
    /\ pc = "done"
    /\ Len(result) >= 2
    /\ react_failed = {1}
    /\ result[1].reactions = NoReactions
    /\ react_answer = <<2, {<<"thumbsup", 1>>}>>
    /\ result[2].reactions = {<<"thumbsup", 1>>}

\* C16: when the loop body of one channel raises an exception other than
\* KeyError, every other channel that has at least 2 posting users and 10
\* counted rows still has its value in the mapping returned.
C16_OtherChannelsStillComputed ==
    pei_pc = "done" =>
        \A c \in DfChannels(pei_df) :
            c \notin pei_fault /\ Computed(pei_df, c) => c \in DOMAIN pei_values

\* C17: the error notification is not what the user is sent when the
\* retrieved table was empty; it is kept for a report generation that raised.
C17_EmptyIsNotReportedAsError ==
    rep_pc = "handled" /\ outcome = "empty" => posted # ErrorNotice

\* C18: every message of a page of conversations_replies other than the
\* thread parent has a row among the rows of the fetch.
C18_NoReplyMissing ==
    \A i \in 1..Len(thr.page) :
        thr.page[i].ts # thr.thread_ts =>
            \E j \in 1..Len(thr.thread_messages) :
                /\ thr.thread_messages[j].ts_str = thr.page[i].ts
                /\ thr.thread_messages[j].is_thread
                /\ thr.thread_messages[j].thread_id = thr.thread_ts

\* C19: the row built from a channel-history message m has is_thread true
\* iff m carries a thread_ts; is_parent (ts = thread_ts) when it carries one
\* and None otherwise; a thread_id that is not None and is thread_ts for a
\* threaded m and m's own ts for an unthreaded one; and the subtype "message"
\* when m has none, m's subtype otherwise.
C19_HistoryRowClassified ==
    processed # <<>> =>
        LET m == processed[1]
            row == all_messages[Len(all_messages)]
            threaded == m.thread_ts # NoneV
        IN  /\ row.ts_str = m.ts
            /\ row.is_thread = threaded
            /\ threaded => row.is_parent = (IF m.ts = m.thread_ts THEN PyTrue ELSE PyFalse)
            /\ ~threaded => row.is_parent = NoneV
            /\ row.thread_id # NoneV
            /\ row.thread_id = (IF threaded THEN m.thread_ts ELSE m.ts)
            /\ row.subtype = (IF m.subtype = NoneV THEN "message" ELSE m.subtype)

\* C19 witness: an unthreaded message without subtype was turned into a row
\* after a threaded reply of another channel
C19_Witness ==
    /\ processed = <<msgPlain>>
    /\ \E i \in 1..Len(all_messages) :
          all_messages[i].is_thread /\ all_messages[i].is_parent = PyFalse

\* C20: a call with no channels (an empty list given, or the list omitted and
\* no channel installed) returns the empty table without any Slack request,
\* a call whose channels gave no message returns the empty table, neither
\* raises, and the installed channels are read only when the list is omitted,
\* and then once.
C20_EmptyTableWithoutChannels ==
    /\ pc = "done" /\ channel_id_list = <<>> => result = <<>> /\ slack_calls = 0
    /\ pc = "done" /\ all_messages = <<>> => result = <<>>
    /\ pc # "raised"
    /\ pc \notin {"idle", "returned"} =>
          registry_reads = (IF arg = Omitted THEN 1 ELSE 0)

\* C20 witness: the list was omitted, no channel is installed, and the empty
\* table was returned without a Slack request
C20_Witness ==
    /\ pc = "done"
    /\ arg = Omitted
    /\ fatal = NoneV
    /\ registry_reads = 1
    /\ channel_id_list = <<>>
    /\ result = <<>>
    /\ slack_calls = 0

\* C21: a rate-limit response to a Slack request of the retrieval is retried:
\* after it the retriever stands where it stood, with the same request still
\* to be made, instead of having skipped the channel, returned from the fetch
\* or moved to the next row.
C21_RateLimitIsRetried ==
    [][rate_limited' => <<pc', ci', mi', ri'>> = <<pc, ci, mi, ri>>]_vars

\* C22: dropping duplicates from a table whose duplicates were dropped
\* changes nothing (same rows, same order): this holds of every assembled
\* table, of the table handed to the reactions loop and of the table
\* returned, which has exactly one row per key of the assembled rows.
C22_DedupIdempotent ==
    /\ DropDuplicates(DropDuplicates(all_messages)) = DropDuplicates(all_messages)
    /\ DropDuplicates(df) = df
    /\ pc = "done" =>
          /\ DropDuplicates(result) = result
          /\ fatal = NoneV =>
                /\ Len(result) = Cardinality(KeysOf(all_messages))
                /\ KeysOf(result) = KeysOf(all_messages)

\* C22 witness: three assembled rows with one key came back as one row, with
\* the reactions of its lookup attached
C22_Witness ==
    /\ pc = "done"
    /\ Len(all_messages) = 3
    /\ Cardinality(KeysOf(all_messages)) = 1
    /\ Len(result) = 1
    /\ result[1].reactions # NoReactions

\* C24: reactions are looked up after deduplication, once per surviving row
\* and in the order of the rows: when the call returns, the reactions_get
\* calls made are those of the rows of the returned table, one each, so their
\* number is the number of returned rows and of keys among the assembled rows
\* (none when the timestamp conversion raised); no lookup is made while rows
\* are still being assembled.
C24_OneLookupPerSurvivingRow ==
    /\ pc \notin {"reactions", "done", "idle", "returned"} => react_keys = <<>>
    /\ pc = "reactions" =>
          /\ Len(react_keys) = ri - 1
          /\ \A i \in 1..Len(react_keys) :
                react_keys[i] = <<df[i].channel_id, df[i].ts_str>>
    /\ pc = "done" =>
          /\ Len(react_keys) = Len(result)
          /\ \A i \in 1..Len(result) :
                react_keys[i] = <<result[i].channel_id, result[i].ts_str>>
          /\ fatal = NoneV => Len(react_keys) = Cardinality(KeysOf(all_messages))

\* C24 witness: three rows were assembled, one of them a duplicate, and two
\* lookups were made for the two rows returned
C24_Witness ==
    /\ pc = "done"
    /\ Len(all_messages) = 3
    /\ Len(result) = 2
    /\ Len(react_keys) = 2
    /\ react_keys[1] # react_keys[2]

\* C25: every request of _get_channel_history and of _get_thread_replies that
\* carries a latest bound also carries a cursor, and every request after the
\* first of a call carries a cursor: the loop ends on a response without one.
C25_LatestOnlyWithCursor ==
    /\ hist.req_latest => hist.req_cursor
    /\ thr.req_latest => thr.req_cursor
    /\ hist.reqs >= 2 => hist.req_cursor
    /\ thr.reqs >= 2 => thr.req_cursor

\* C25 witness: a second conversations_history request went out with latest
\* and cursor, after a page with messages
C25_Witness ==
    /\ hist.reqs >= 2
    /\ hist.req_latest
    /\ hist.req_cursor
    /\ hist.all_messages # <<>>

\* the rows the channel loop assembled for the first channel of the list,
\* and those it assembled afterwards
FirstChannelRows == SubSeq(all_messages, 1, first_rows)
LaterRows == SubSeq(all_messages, first_rows + 1, Len(all_messages))

\* C27: when a channel is listed twice and its second fetch gives the rows of
\* the first, the table returned is the one of the first fetch alone: the rows
\* of the second fetch are all removed as duplicates and reactions are looked
\* up once per row that is left; in general, the rows of a table appended to
\* the table itself are all removed by the deduplication.
C27_RepeatedChannelAddsNothing ==
    /\ DropDuplicates(all_messages \o all_messages) = DropDuplicates(all_messages)
    /\ (/\ pc = "done"
        /\ fatal = NoneV
        /\ Len(channel_id_list) = 2
        /\ channel_id_list[1] = channel_id_list[2]
        /\ LaterRows = FirstChannelRows)
       => /\ Len(result) = Len(DropDuplicates(FirstChannelRows))
          /\ \A i \in 1..Len(result) :
                WithoutReactions(result[i]) = DropDuplicates(FirstChannelRows)[i]
          /\ Len(react_keys) = Len(DropDuplicates(FirstChannelRows))

\* C27 witness: a channel listed twice gave the same row at both positions
\* and one row was returned after one reactions lookup
C27_Witness ==
    /\ pc = "done"
    /\ Len(channel_id_list) = 2
    /\ channel_id_list[1] = channel_id_list[2]
    /\ first_rows = 1
    /\ LaterRows = FirstChannelRows
    /\ Len(result) = 1
    /\ Len(react_keys) = 1

\* C26: every PEI value returned for a channel with n users is greater than
\* 1/n, hence never 0: every counted user has at least one message, the
\* weighted sum over the ascending counts is at least 0 and less than
\* (n - 1) * total, and the absolute value leaves it as it is.
C26_PeiAboveOneOverN ==
    pei_pc = "done" =>
        \A c \in DOMAIN pei_values :
            LET q == SortedCounts(pei_df, c)
                n == Len(q)
            IN  /\ n = Cardinality(Posters(pei_df, c))
                /\ \A i \in 1..n : q[i] >= 1
                /\ \A i \in 1..(n - 1) : q[i] <= q[i + 1]
                /\ 0 <= WeightedSum(q)
                /\ WeightedSum(q) < (n - 1) * SumSeq(q)
                /\ Abs(WeightedSum(q)) = WeightedSum(q)
                /\ n * pei_values[c][1] > pei_values[c][2]
                /\ pei_values[c][1] > 0

\* C26 witness: a channel of three users with 1, 1 and 9 counted messages has
\* the value 17/33
C26_Witness ==
    /\ pei_pc = "done"
    /\ "general" \in DOMAIN pei_values
    /\ SortedCounts(pei_df, "general") = <<1, 1, 9>>
    /\ pei_values["general"] = <<17, 33>>

\* C29: the handler attempts the acknowledgment post before any other post,
\* it posts at most one final message, the report blocks or the error
\* notification, and after an acknowledgment post that failed it goes on to
\* generate the report.
C29_AckThenOneFinalMessage ==
    /\ attempts # <<>> => attempts[1] = "ack"
    /\ \A i \in 2..Len(attempts) : attempts[i] # "ack"
    /\ Len(delivered) <= 1
    /\ ack \in {"SlackApiError", "Exception"} => rep_pc = "generate"

\* C23: the days value that reaches get_channel_messages is an integer >= 1;
\* a command text that is not an integer or is <= 0 gets a correction
\* message and no modal, and the modal of an empty text carries 30, that of
\* another text an integer >= 1.
C23_DaysAtLeastOne ==
    LET text == Strip(cmd_text)
    IN  /\ days_arg # <<>> => days_arg[1] >= 1
        /\ cmd_pc \in {"answered", "modal", "submitted"} =>
              /\ (text # <<>> /\ (IntOf(text) = <<>> \/ IntOf(text)[1] <= 0))
                    => (modal = <<>> /\ cmd_reply # NoneV /\ cmd_pc = "answered")
              /\ modal # <<>> =>
                    /\ cmd_reply = NoneV
                    /\ IntOf(modal) # <<>>
                    /\ IntOf(modal)[1] >= 1
                    /\ text = <<>> => modal = <<"3", "0">>

\* C23 witness: the text " 07" was typed and 7 days reached
\* get_channel_messages through a modal that carried "7"
C23_Witness ==
    /\ cmd_text = <<" ", "0", "7">>
    /\ modal = <<"7">>
    /\ days_arg = <<7>>

\* the channels of the pages of a listing, in order
RECURSIVE Flatten(_)
Flatten(pages) == IF pages = <<>> THEN <<>> ELSE Head(pages) \o Flatten(Tail(pages))

\* the ids of the member channels among channels, in order
MembersAmong(channels) ==
    LET idx == {i \in 1..Len(channels) : channels[i].is_member}
    IN  [k \in 1..Cardinality(idx) |->
            channels[CHOOSE i \in idx : Cardinality({j \in idx : j <= i}) = k].id]

\* C28: every update overwrites the stored list with what its listing
\* returned: empty after a listing that raised, the member channels of the
\* pages answered before an error response, those of all pages after a
\* complete listing; and a report for all channels runs on the list stored
\* last, returning the empty table without a Slack request when it is empty.
C28_StoredListFollowsListing ==
    /\ trk_pc = "idle" /\ trk_end # NoneV =>
          GetInstalledChannels(env) =
              (IF trk_end = "raise" THEN <<>> ELSE MembersAmong(Flatten(trk_listed)))
    /\ arg = Omitted =>
          /\ channel_id_list = expected_list
          /\ expected_list = <<>> =>
                pc = "done" /\ result = <<>> /\ slack_calls = 0
          /\ expected_list # <<>> => pc = "info"

\* C28 witness: a listing ended by an error response after a first page
\* with a member and a non-member channel; the stored list holds the member
\* channel of that page alone and the report for all channels runs on it
C28_Witness ==
    /\ trk_pc = "idle"
    /\ trk_end = "error"
    /\ trk_listed = <<<<[id |-> "C3", is_member |-> FALSE],
                        [id |-> "C1", is_member |-> TRUE]>>>>
    /\ env = <<"C1">>
    /\ arg = Omitted
    /\ channel_id_list = <<"C1">>
    /\ pc = "info"

\* C30: whenever handle_quiz_answer runs for a user who has quiz state,
\* current_question is a valid index into the questions of that state; and
\* while no Slack call has failed, the answer to the last question shows the
\* results once and deletes the state, and an answer click of a user without
\* state changes nothing.
C30_AnswerFindsItsQuestion ==
    [][quiz_handler' = "handle_quiz_answer" =>
          /\ user_quiz_data # <<>> => ValidIndex(user_quiz_data[1])
          /\ /\ user_quiz_data # <<>>
             /\ ~slack_failed'
             /\ user_quiz_data[1].current_question + 1 = Len(user_quiz_data[1].questions)
             => /\ results_shown' = results_shown + 1
                /\ user_quiz_data' = <<>>
          /\ user_quiz_data = <<>> =>
                UNCHANGED <<user_quiz_data, results_shown, answer_buttons, start_button>>
    ]_vars
====
